---- MODULE Spec2Model ----
(***************************************************************************)
(* MCQ-ENGINE: the model fallback engine (generateWithFallback), the       *)
(* result cache and generateMCQs of src/server/services/ai-service.js, and *)
(* the batch/stream scheduler of the /generate-mcq route in                *)
(* src/server/utils/validators.js.                                         *)
(*                                                                         *)
(* Every request is an async function: an action is the code that runs     *)
(* between two suspension points (await) of one request.  Text is a        *)
(* sequence of one-character strings.                                      *)
(***************************************************************************)
EXTENDS Integers, Sequences, FiniteSets, TLC

VARIABLES
    pc,          \* per request: the suspension point it is at
    candidates,  \* the list generateWithFallback iterates (MODELS)
    modelIdx,    \* generateWithFallback: position of modelName in the list
    attempt,     \* generateWithFallback: the inner loop counter
    error,       \* generateWithFallback: the error caught last
    lastError,   \* generateWithFallback: lastError
    waitTime,    \* generateWithFallback: waitTime handed to sleep()
    result,      \* generateWithFallback: the value returned
    thrown,      \* message of the Error a function of the request threw last
    calls,       \* log: the provider calls of the current invocation
    sleeps,      \* log: number of backoff waits so far
    invocations, \* log: generateWithFallback invocations of the request
    req,         \* /generate-mcq: validatedData and req.file
    batches,     \* /generate-mcq: batches
    bi,          \* /generate-mcq: i + 1, the batch being processed
    completedInRequest,  \* /generate-mcq: completedInRequest
    stream,      \* /generate-mcq: the chunks written to res
    cacheKey,    \* generateMCQs: cacheKey
    genOut,      \* generateMCQs: the array returned
    cache,       \* resultCache, in insertion order
    hits,        \* log: the batches of the request served from resultCache
    failed,      \* log: the batches of the request whose generation threw
    events,      \* log: requests received and finished, in order
    input,       \* the argument a function was last applied to on its own
    output       \* what it returned

engineVars == <<modelIdx, attempt, error, lastError, waitTime, result, calls>>

hostVars ==
    <<candidates, req, batches, bi, completedInRequest, stream, cacheKey, genOut, cache, hits,
      failed, events, input, output>>

vars == <<pc, engineVars, thrown, sleeps, invocations, hostVars>>

\* Concurrent requests the model runs.
MaxRequests == 2

\* The server specification runs generateWithFallback over the first
\* ServerModels entries of MODELS; the engine specification over all.
ServerModels == 2

\* Backoff waits the provider may cause in one behaviour of the server.
MaxSleeps == 1

\* Longest array the provider answers a batch with.
MaxRecords == 2

\* CACHE_LIMIT is 500 in the source; the model runs the same code on a
\* cache of this capacity.
CACHE_LIMIT == 2

\* const BATCH_SIZE = 2
BATCH_SIZE == 2

Procs == 1..MaxRequests

-----------------------------------------------------------------------------
(* Text helpers *)

Digits == {"0", "1", "2", "3", "4", "5", "6", "7", "8", "9"}

DigitVal(c) ==
    CASE c = "0" -> 0 [] c = "1" -> 1 [] c = "2" -> 2 [] c = "3" -> 3
      [] c = "4" -> 4 [] c = "5" -> 5 [] c = "6" -> 6 [] c = "7" -> 7
      [] c = "8" -> 8 [] c = "9" -> 9

Str(s) == [i \in 1..Len(s) |-> s[i]]

RECURSIVE Pow(_, _)
Pow(b, n) == IF n = 0 THEN 1 ELSE b * Pow(b, n - 1)

\* Number of leading decimal digits of s from position i on.
RECURSIVE DigitRun(_, _)
DigitRun(s, i) ==
    IF i <= Len(s) /\ s[i] \in Digits THEN 1 + DigitRun(s, i + 1) ELSE 0

RECURSIVE DigitsVal(_)
DigitsVal(s) ==
    IF s = <<>> THEN 0
    ELSE 10 * DigitsVal(SubSeq(s, 1, Len(s) - 1)) + DigitVal(s[Len(s)])

\* A JavaScript number as far as the engine needs it: NaN, or the exact
\* rational num/den (IEEE rounding of the product by 1000 is not modelled).
NaN == [nan |-> TRUE, num |-> 0, den |-> 1]

Num(n, d) == [nan |-> FALSE, num |-> n, den |-> d]

\* parseFloat on text over [0-9.]: the longest prefix digits[.digits] that
\* holds a digit; NaN when there is none.
parseFloat(s) ==
    LET il == DigitRun(s, 1)
        dot == il + 1 <= Len(s) /\ s[il + 1] = "."
        fl == IF dot THEN DigitRun(s, il + 2) ELSE 0
    IN  IF il + fl = 0 THEN NaN
        ELSE Num(DigitsVal(SubSeq(s, 1, il) \o SubSeq(s, il + 2, il + 1 + fl)),
                 Pow(10, fl))

\* parseInt on unsigned text: the leading decimal digits; NaN when none.
parseInt(s) ==
    LET il == DigitRun(s, 1)
    IN  IF il = 0 THEN NaN ELSE Num(DigitsVal(SubSeq(s, 1, il)), 1)

\* Math.ceil(x * 1000) + 1000
CeilMsPlusMargin(x) ==
    IF x.nan THEN NaN
    ELSE Num((x.num * 1000 + x.den - 1) \div x.den + 1000, 1)

\* x * 1000 + 1000 for the integer (or NaN) that parseInt returned
MsPlusMargin(x) == IF x.nan THEN NaN ELSE Num(x.num * 1000 + 1000, 1)

-----------------------------------------------------------------------------
(* The provider's errors.  message is what error.message holds: the words   *)
(* the engine searches for (tokens) and the text captured by                *)
(* /Please retry in ([0-9.]+)s/ (hint, empty when the pattern does not      *)
(* match).  response says whether error.response with headers exists;      *)
(* status is error.response.status, header the retry-after header (empty    *)
(* when absent).                                                            *)

NoError ==
    [kind |-> "none", message |-> [tokens |-> {}, hint |-> <<>>],
     response |-> FALSE, status |-> 0, header |-> <<>>]

Err(tokens, hint, response, status, header) ==
    [kind |-> "error", message |-> [tokens |-> tokens, hint |-> Str(hint)],
     response |-> response, status |-> status, header |-> Str(header)]

ProviderErrors ==
    { Err({}, <<>>, FALSE, 0, <<>>),                        \* fatal, e.g. a bad API key
      Err({}, <<"1", "2">>, TRUE, 500, <<"7">>),            \* fatal, carrying hints
      Err({}, <<>>, TRUE, 503, <<>>),                       \* status 503, message silent
      Err({"429"}, <<>>, FALSE, 0, <<>>),                   \* quota, no hint
      Err({}, <<>>, TRUE, 429, <<"7">>),                    \* quota by status, header
      Err({"503"}, <<"1", ".", "0", "0", "0", "5">>, TRUE, 503, <<"7">>),
      Err({"overloaded"}, <<>>, TRUE, 503, <<"1", ".", "5">>),
      Err({"429"}, <<"3">>, TRUE, 429, <<"W", "e", "d">>),
      Err({"503"}, <<>>, TRUE, 503, <<"W", "e", "d">>) }    \* retry-after: a date

\* The errors of the server specification: one fatal, one transient.
CoarseErrors ==
    { Err({}, <<>>, FALSE, 0, <<>>), Err({"429"}, <<>>, FALSE, 0, <<>>) }

-----------------------------------------------------------------------------
(* generateWithFallback *)

MODELS ==
    << "gemini-1.5-flash-latest", "gemini-flash-lite-latest", "gemini-flash-latest",
       "gemini-2.0-flash-exp", "gemini-2.0-flash-lite", "gemini-1.5-pro-latest",
       "gemini-2.0-pro-exp" >>

isQuotaError(e) == "429" \in e.message.tokens \/ (e.response /\ e.status = 429)

isOverloaded(e) == "503" \in e.message.tokens \/ "overloaded" \in e.message.tokens

\* for (let attempt = 1; attempt <= 3; attempt++)
AttemptInLoop(a) == a <= 3

NextAttempt_NoCount(a) == a

NextAttempt(a) == a + 1

MayRetry_AnyError(e, a) == a < 3

\* A transient failure of the third attempt is waited for as well.
MayRetry_ThirdToo(e, a) == (isQuotaError(e) \/ isOverloaded(e)) /\ a < 4

\* if ((isQuotaError || isOverloaded) && attempt < 3)
MayRetry(e, a) == (isQuotaError(e) \/ isOverloaded(e)) /\ a < 3

WaitTime_HeaderFirst(e, a) ==
    IF e.response /\ e.header /= <<>> THEN MsPlusMargin(parseInt(e.header))
    ELSE IF e.message.hint /= <<>> THEN CeilMsPlusMargin(parseFloat(e.message.hint))
    ELSE Num(2000 * Pow(2, a - 1), 1)

WaitTime(e, a) ==
    IF e.message.hint /= <<>> THEN CeilMsPlusMargin(parseFloat(e.message.hint))
    ELSE IF e.response /\ e.header /= <<>> THEN MsPlusMargin(parseInt(e.header))
    ELSE Num(2000 * Pow(2, a - 1), 1)

NextModelIdx_Skip(i) == i + 2

\* for (const modelName of MODELS)
NextModelIdx(i) == i + 1

LastErrorAfter_First(old, e) == IF old.kind = "none" THEN e ELSE old

\* lastError = error
LastErrorAfter(old, e) == e

AllFailedMessage(e) ==
    << "All models failed. Last error: ",
       IF e.kind = "none" THEN [tokens |-> {"Unknown error"}, hint |-> <<>>]
       ELSE e.message >>

NoResult == [from |-> <<0, 0>>, body |-> "none"]

Call(m, a) == [model |-> m, attempt |-> a, outcome |-> "pending"]

Settle(log, o) == [log EXCEPT ![Len(log)].outcome = o]

\* The call at (m, a) is issued when m names a model; past the end of the
\* list the engine throws.
Advance(r, m, le, log) ==
    IF m <= Len(candidates)
    THEN /\ pc' = [pc EXCEPT ![r] = "awaiting"]
         /\ modelIdx' = [modelIdx EXCEPT ![r] = m]
         /\ attempt' = [attempt EXCEPT ![r] = 1]
         /\ calls' = [calls EXCEPT ![r] = Append(log, Call(m, 1))]
         /\ thrown' = thrown
    ELSE /\ pc' = [pc EXCEPT ![r] = "eng_threw"]
         /\ modelIdx' = [modelIdx EXCEPT ![r] = m]
         /\ attempt' = attempt
         /\ calls' = [calls EXCEPT ![r] = log]
         /\ thrown' = [thrown EXCEPT ![r] = AllFailedMessage(le)]

\* generateWithFallback is entered: lastError = null, the first model's
\* first attempt is issued.
Invoke(r) ==
    /\ pc[r] = "eng_call"
    /\ lastError' = [lastError EXCEPT ![r] = NoError]
    /\ error' = [error EXCEPT ![r] = NoError]
    /\ result' = [result EXCEPT ![r] = NoResult]
    /\ waitTime' = [waitTime EXCEPT ![r] = Num(0, 1)]
    /\ invocations' = [invocations EXCEPT ![r] = invocations[r] + 1]
    /\ Advance(r, 1, NoError, <<>>)
    /\ UNCHANGED <<sleeps, hostVars>>

\* The result is kept but not returned: the attempt loop goes on.
ProviderSucceeds_NoReturn(r, body) ==
    /\ pc[r] = "awaiting"
    /\ result' = [result EXCEPT ![r] =
                     [from |-> <<modelIdx[r], attempt[r]>>, body |-> body]]
    /\ UNCHANGED <<error, lastError, waitTime, sleeps, invocations, hostVars>>
    /\ IF attempt[r] < 3
       THEN /\ pc' = [pc EXCEPT ![r] = "awaiting"]
            /\ attempt' = [attempt EXCEPT ![r] = attempt[r] + 1]
            /\ calls' = [calls EXCEPT ![r] =
                            Append(Settle(calls[r], "ok"), Call(modelIdx[r], attempt[r] + 1))]
            /\ UNCHANGED <<modelIdx, thrown>>
       ELSE Advance(r, modelIdx[r] + 1, lastError[r], Settle(calls[r], "ok"))

\* model.generateContent(parts) resolves: return result.
ProviderSucceeds(r, body) ==
    /\ pc[r] = "awaiting"
    /\ pc' = [pc EXCEPT ![r] = "eng_returned"]
    /\ result' = [result EXCEPT ![r] =
                     [from |-> <<modelIdx[r], attempt[r]>>, body |-> body]]
    /\ calls' = [calls EXCEPT ![r] = Settle(calls[r], "ok")]
    /\ UNCHANGED <<modelIdx, attempt, error, lastError, waitTime, thrown>>
    /\ UNCHANGED <<sleeps, invocations, hostVars>>

\* model.generateContent(parts) rejects with e: the inner catch sleeps
\* before a retry, or rethrows to the outer catch, which records the error
\* and goes on to the next model.
ProviderFails(r, e) ==
    /\ pc[r] = "awaiting"
    /\ error' = [error EXCEPT ![r] = e]
    /\ result' = result
    /\ UNCHANGED <<invocations, hostVars>>
    /\ IF MayRetry(e, attempt[r])
       THEN /\ waitTime' = [waitTime EXCEPT ![r] = WaitTime(e, attempt[r])]
            /\ sleeps' = sleeps + 1
            /\ pc' = [pc EXCEPT ![r] = "sleeping"]
            /\ calls' = [calls EXCEPT ![r] = Settle(calls[r], "failed")]
            /\ UNCHANGED <<modelIdx, attempt, lastError, thrown>>
       ELSE /\ waitTime' = waitTime
            /\ sleeps' = sleeps
            /\ lastError' = [lastError EXCEPT ![r] = LastErrorAfter(lastError[r], e)]
            /\ Advance(r, NextModelIdx(modelIdx[r]),
                       LastErrorAfter(lastError[r], e), Settle(calls[r], "failed"))

\* sleep(waitTime) resolves: continue; attempt++; the loop test; the call.
Wake(r) ==
    /\ pc[r] = "sleeping"
    /\ UNCHANGED <<error, lastError, waitTime, result, sleeps, invocations, hostVars>>
    /\ IF AttemptInLoop(NextAttempt(attempt[r]))
       THEN /\ pc' = [pc EXCEPT ![r] = "awaiting"]
            /\ attempt' = [attempt EXCEPT ![r] = NextAttempt(attempt[r])]
            /\ calls' = [calls EXCEPT ![r] =
                            Append(calls[r], Call(modelIdx[r], NextAttempt(attempt[r])))]
            /\ UNCHANGED <<modelIdx, thrown>>
       ELSE Advance(r, NextModelIdx(modelIdx[r]), lastError[r], calls[r])

-----------------------------------------------------------------------------
(* resultCache: a Map, kept as the sequence of its entries in insertion    *)
(* order.  inputs is a log field: the arguments of the generateMCQs call   *)
(* that stored the entry.                                                  *)

Min_First(a, b) == a

Min(a, b) == IF a <= b THEN a ELSE b

Max(a, b) == IF a >= b THEN a ELSE b

DigitChar(d) == CHOOSE c \in Digits : DigitVal(c) = d

\* `${n}` for a non-negative integer
RECURSIVE ToDecimal(_)
ToDecimal(n) ==
    IF n < 10 THEN <<DigitChar(n)>> ELSE ToDecimal(n \div 10) \o <<DigitChar(n % 10)>>

\* `${b}` for a boolean
BoolText(b) == IF b THEN <<"t", "r", "u", "e">> ELSE <<"f", "a", "l", "s", "e">>

PreHash_NoFlag(material, easy, medium, hard, expl) ==
    material \o <<"|">> \o ToDecimal(easy) \o <<"|">> \o ToDecimal(medium)
        \o <<"|">> \o ToDecimal(hard)

\* `${studyMaterial}|${easyCount}|${mediumCount}|${hardCount}|${includeExplanation}`
PreHash(material, easy, medium, hard, expl) ==
    material \o <<"|">> \o ToDecimal(easy) \o <<"|">> \o ToDecimal(medium)
        \o <<"|">> \o ToDecimal(hard) \o <<"|">> \o BoolText(expl)

\* crypto.createHash('sha256').update(s).digest('hex'): the digest stands
\* for its preimage (no two texts of the model collide).
Sha256Hex(s) == <<"sha256:">> \o s

\* cacheKey = null
Null == <<>>

\* The arguments generateMCQs builds its key from.
KeyInputs(q, b) ==
    <<q.studyMaterial, b.easyCount, b.mediumCount, b.hardCount, q.includeExplanation>>

CacheKey_IgnoreFile(q, b) ==
    Sha256Hex(PreHash(q.studyMaterial, b.easyCount, b.mediumCount, b.hardCount,
                      q.includeExplanation))

CacheKey(q, b) ==
    IF q.file = "none"
    THEN Sha256Hex(PreHash(q.studyMaterial, b.easyCount, b.mediumCount, b.hardCount,
                           q.includeExplanation))
    ELSE Null

\* resultCache.has(k)
Has(c, k) == \E i \in 1..Len(c) : c[i].key = k

\* resultCache.get(k)
Get(c, k) == c[CHOOSE i \in 1..Len(c) : c[i].key = k].value

\* resultCache.get(k) leaves the Map and the order of its keys as they are.
AfterGet_MoveToEnd(c, k) ==
    SelectSeq(c, LAMBDA x : x.key /= k) \o SelectSeq(c, LAMBDA x : x.key = k)

AfterGet(c, k) == c

\* resultCache.set(k, v): a present key keeps its place.
MapSet(c, k, v, t) ==
    LET entry == [key |-> k, value |-> v, inputs |-> t]
    IN  IF Has(c, k)
        THEN [i \in 1..Len(c) |-> IF c[i].key = k THEN entry ELSE c[i]]
        ELSE Append(c, entry)

Store_NoEvict(c, k, v, t) == MapSet(c, k, v, t)

Store_EvictNewest(c, k, v, t) ==
    MapSet(IF Len(c) >= CACHE_LIMIT THEN SubSeq(c, 1, Len(c) - 1) ELSE c, k, v, t)

ShouldStore_Empty(k, validMcqs) == k /= Null

\* if (cacheKey && validMcqs.length > 0)
ShouldStore(k, validMcqs) == k /= Null /\ Len(validMcqs) > 0

\* if (resultCache.size >= CACHE_LIMIT) delete the first key; then set.
Store(c, k, v, t) ==
    MapSet(IF Len(c) >= CACHE_LIMIT THEN Tail(c) ELSE c, k, v, t)

-----------------------------------------------------------------------------
(* JavaScript values as JSON.parse yields them, and the normalizers *)

Undefined == [t |-> "undefined"]

JNull == [t |-> "null"]

JStr(s) == [t |-> "string", chars |-> s]

JNum(n) == [t |-> "number", num |-> n]

JBool(b) == [t |-> "boolean", bool |-> b]

JArr(items) == [t |-> "array", items |-> items]

\* An object: fields is a function from property names to values.
JObj(fields) == [t |-> "object", fields |-> fields]

\* ToBoolean
Truthy(x) ==
    CASE x.t \in {"undefined", "null"} -> FALSE
      [] x.t = "string" -> x.chars /= <<>>
      [] x.t = "number" -> x.num /= 0
      [] x.t = "boolean" -> x.bool
      [] OTHER -> TRUE

\* a || b
Or(a, b) == IF Truthy(a) THEN a ELSE b

\* x.k for a property name that is no index and not length
Prop(x, k) == IF x.t = "object" /\ k \in DOMAIN x.fields THEN x.fields[k] ELSE Undefined

\* x[i] for the index i, from 0
Index(x, i) ==
    IF x.t = "array" /\ i + 1 <= Len(x.items) THEN x.items[i + 1]
    ELSE IF x.t = "string" /\ i + 1 <= Len(x.chars) THEN JStr(<<x.chars[i + 1]>>)
    ELSE Undefined

\* typeof x === 'object' for a truthy x
IsObjectType(x) == x.t \in {"object", "array"}

\* UTF-16 code units of the characters the model writes answers with.
CharCode(c) ==
    CASE c = " " -> 32 [] c = ")" -> 41 [] c = "1" -> 49
      [] c = "A" -> 65 [] c = "B" -> 66 [] c = "C" -> 67 [] c = "D" -> 68
      [] c = "E" -> 69 [] c = "T" -> 84 [] c = "Z" -> 90 [] c = "[" -> 91
      [] c = "a" -> 97 [] c = "b" -> 98 [] c = "c" -> 99 [] c = "d" -> 100
      [] c = "e" -> 101 [] c = "o" -> 111 [] c = "t" -> 116

\* c.toUpperCase()
ToUpperCase(c) ==
    CASE c = "a" -> "A" [] c = "b" -> "B" [] c = "c" -> "C" [] c = "d" -> "D"
      [] c = "e" -> "E" [] c = "o" -> "O" [] c = "t" -> "T" [] OTHER -> c

\* s.trim()
RECURSIVE Trim(_)
Trim(s) ==
    IF s = <<>> THEN s
    ELSE IF s[1] = " " THEN Trim(Tail(s))
    ELSE IF s[Len(s)] = " " THEN Trim(SubSeq(s, 1, Len(s) - 1))
    ELSE s

\* x.toString() for a truthy x (the items of an array are strings)
RECURSIVE Join(_)
Join(items) ==
    IF items = <<>> THEN <<>>
    ELSE IF Len(items) = 1 THEN items[1].chars
    ELSE items[1].chars \o <<",">> \o Join(Tail(items))

toString(x) ==
    CASE x.t = "string" -> x.chars
      [] x.t = "number" -> ToDecimal(x.num)
      [] x.t = "boolean" -> BoolText(x.bool)
      [] x.t = "array" -> Join(x.items)
      [] x.t = "object" -> <<"[", "o", "b", "j", "e", "c", "t", " ", "O", "b", "j", "e", "c", "t", "]">>

NoOptions ==
    JObj([A |-> JStr(<<>>), B |-> JStr(<<>>), C |-> JStr(<<>>), D |-> JStr(<<>>)])

\* Lower-case keys are not recognized.
normalizeOptions_NoLowerCase(options) ==
    IF ~Truthy(options) THEN NoOptions
    ELSE IF Prop(options, "A") /= Undefined /\ Prop(options, "B") /= Undefined
    THEN JObj([A |-> Or(Prop(options, "A"), Or(Prop(options, "a"), JStr(<<>>))),
               B |-> Or(Prop(options, "B"), Or(Prop(options, "b"), JStr(<<>>))),
               C |-> Or(Prop(options, "C"), Or(Prop(options, "c"), JStr(<<>>))),
               D |-> Or(Prop(options, "D"), Or(Prop(options, "d"), JStr(<<>>)))])
    ELSE IF options.t = "array"
    THEN JObj([A |-> Or(Index(options, 0), JStr(<<>>)),
               B |-> Or(Index(options, 1), JStr(<<>>)),
               C |-> Or(Index(options, 2), JStr(<<>>)),
               D |-> Or(Index(options, 3), JStr(<<>>))])
    ELSE NoOptions

\* A slot whose value is falsy is left out.
normalizeOptions_DropEmpty(options) ==
    IF ~Truthy(options) THEN NoOptions
    ELSE IF options.t = "array"
    THEN JObj([k \in {s \in {"A", "B", "C", "D"} :
                        Truthy(Index(options, CharCode(s) - 65))} |->
                  Index(options, CharCode(k) - 65)])
    ELSE NoOptions

normalizeOptions(options) ==
    IF ~Truthy(options) THEN NoOptions
    ELSE IF Prop(options, "A") /= Undefined /\ Prop(options, "B") /= Undefined
    THEN JObj([A |-> Or(Prop(options, "A"), Or(Prop(options, "a"), JStr(<<>>))),
               B |-> Or(Prop(options, "B"), Or(Prop(options, "b"), JStr(<<>>))),
               C |-> Or(Prop(options, "C"), Or(Prop(options, "c"), JStr(<<>>))),
               D |-> Or(Prop(options, "D"), Or(Prop(options, "d"), JStr(<<>>)))])
    ELSE IF options.t = "array"
    THEN JObj([A |-> Or(Index(options, 0), JStr(<<>>)),
               B |-> Or(Index(options, 1), JStr(<<>>)),
               C |-> Or(Index(options, 2), JStr(<<>>)),
               D |-> Or(Index(options, 3), JStr(<<>>))])
    ELSE IF Prop(options, "a") /= Undefined \/ Prop(options, "b") /= Undefined
    THEN JObj([A |-> Or(Prop(options, "a"), JStr(<<>>)),
               B |-> Or(Prop(options, "b"), JStr(<<>>)),
               C |-> Or(Prop(options, "c"), JStr(<<>>)),
               D |-> Or(Prop(options, "d"), JStr(<<>>))])
    ELSE NoOptions

\* /^[A-DA-d]/ : the ranges A-D and A-d of code units
MatchesAnswerClass(c) ==
    \/ CharCode(c) >= CharCode("A") /\ CharCode(c) <= CharCode("D")
    \/ CharCode(c) >= CharCode("A") /\ CharCode(c) <= CharCode("d")

\* The answer text, trimmed.
AnswerText(mcq) ==
    Trim(toString(
        Or(Prop(mcq, "correctAnswer"),
        Or(Prop(mcq, "correct_answer"),
        Or(Prop(mcq, "answer"),
        Or(Prop(mcq, "Answer"),
        Or(Prop(mcq, "correct_option"),
        Or(Prop(mcq, "selected_option"), JStr(<<"A">>)))))))))

AnswerLetter(answer) ==
    IF answer /= <<>> /\ MatchesAnswerClass(answer[1]) THEN ToUpperCase(answer[1]) ELSE "A"

normalizeMCQ(mcq) ==
    IF ~Truthy(mcq) \/ ~IsObjectType(mcq) THEN JNull
    ELSE JObj([question |->
                   Or(Prop(mcq, "question"),
                   Or(Prop(mcq, "Question"),
                   Or(Prop(mcq, "text"), JStr(<<"No question provided">>)))),
               options |->
                   normalizeOptions(
                       Or(Prop(mcq, "options"), Or(Prop(mcq, "Options"), Prop(mcq, "choices")))),
               correctAnswer |-> JStr(<<AnswerLetter(AnswerText(mcq))>>),
               explanation |->
                   Or(Prop(mcq, "explanation"),
                   Or(Prop(mcq, "Explanation"),
                   Or(Prop(mcq, "reasoning"), JStr(<<>>))))])

-----------------------------------------------------------------------------
(* cleanJSONResponse and JSON.parse *)

\* A text is a sequence of characters. "\n" is the line feed, "\t" the tab.
WhiteSpace == {" ", "\n", "\t"}

HexDigits ==
    Digits \cup {"a", "b", "c", "d", "e", "f", "A", "B", "C", "D", "E", "F"}

\* text.startsWith(pat, i - 1)
StartsWith(text, i, pat) ==
    /\ i + Len(pat) - 1 <= Len(text)
    /\ \A k \in 1..Len(pat) : text[i + k - 1] = pat[k]

\* An object as JSON.parse builds it: its members in the order of the text.
JPairs(pairs) == [t |-> "object", pairs |-> pairs]

\* What JSON.parse gives when it throws.
Fail == [ok |-> FALSE, value |-> JNull, next |-> 0]

Parsed(value, next) == [ok |-> TRUE, value |-> value, next |-> next]

RECURSIVE SkipWs(_, _)
SkipWs(text, i) ==
    IF i <= Len(text) /\ text[i] \in WhiteSpace THEN SkipWs(text, i + 1) ELSE i

\* The character an escape of one letter stands for; the backspace, the form
\* feed and the carriage return are written BS, FF and CR.
Unescape(c) ==
    CASE c = "\"" -> "\"" [] c = "\\" -> "\\" [] c = "/" -> "/"
      [] c = "b" -> "BS" [] c = "f" -> "FF" [] c = "n" -> "\n"
      [] c = "r" -> "CR" [] c = "t" -> "\t"

\* The character of a \uXXXX escape, for the code units the texts use.
CodeUnit(hex) ==
    CASE hex = <<"0", "0", "4", "1">> -> "A"
      [] hex = <<"0", "0", "6", "1">> -> "a"

\* The rest of a string literal from position i, after the opening quote.
RECURSIVE ParseString(_, _, _)
ParseString(text, i, acc) ==
    IF i > Len(text) THEN Fail
    ELSE IF text[i] = "\"" THEN Parsed(JStr(acc), i + 1)
    ELSE IF text[i] = "\\"
    THEN IF i + 1 > Len(text) THEN Fail
         ELSE IF text[i + 1] \in {"\"", "\\", "/", "b", "f", "n", "r", "t"}
         THEN ParseString(text, i + 2, Append(acc, Unescape(text[i + 1])))
         ELSE IF /\ text[i + 1] = "u"
                 /\ i + 5 <= Len(text)
                 /\ \A k \in 2..5 : text[i + k] \in HexDigits
         THEN ParseString(text, i + 6, Append(acc, CodeUnit(SubSeq(text, i + 2, i + 5))))
         ELSE Fail
    ELSE IF text[i] \in {"\n", "\t"} THEN Fail
    ELSE ParseString(text, i + 1, Append(acc, text[i]))

\* The digits of an integer from position i.
RECURSIVE ParseDigits(_, _, _)
ParseDigits(text, i, acc) ==
    IF i <= Len(text) /\ text[i] \in Digits
    THEN ParseDigits(text, i + 1, acc * 10 + DigitVal(text[i]))
    ELSE Parsed(JNum(acc), i)

RECURSIVE ParseValue(_, _)
RECURSIVE ParseElements(_, _, _)
RECURSIVE ParseMembers(_, _, _)

\* The items of an array from position i, after "[" or ",".
ParseElements(text, i, acc) ==
    LET v == ParseValue(text, i)
        j == SkipWs(text, v.next)
    IN  IF ~v.ok \/ j > Len(text) THEN Fail
        ELSE IF text[j] = "," THEN ParseElements(text, j + 1, Append(acc, v.value))
        ELSE IF text[j] = "]" THEN Parsed(JArr(Append(acc, v.value)), j + 1)
        ELSE Fail

\* The members of an object from position i, after "{" or ",".
ParseMembers(text, i, acc) ==
    LET k == SkipWs(text, i)
    IN  IF k > Len(text) \/ text[k] /= "\"" THEN Fail
        ELSE LET key == ParseString(text, k + 1, <<>>)
                 c == SkipWs(text, key.next)
             IN  IF ~key.ok \/ c > Len(text) \/ text[c] /= ":" THEN Fail
                 ELSE LET v == ParseValue(text, c + 1)
                          j == SkipWs(text, v.next)
                          pairs == Append(acc, <<key.value.chars, v.value>>)
                      IN  IF ~v.ok \/ j > Len(text) THEN Fail
                          ELSE IF text[j] = "," THEN ParseMembers(text, j + 1, pairs)
                          ELSE IF text[j] = "}" THEN Parsed(JPairs(pairs), j + 1)
                          ELSE Fail

\* The JSON value that starts at position i, white space skipped.
ParseValue(text, i) ==
    LET j == SkipWs(text, i)
    IN  IF j > Len(text) THEN Fail
        ELSE IF text[j] = "\"" THEN ParseString(text, j + 1, <<>>)
        ELSE IF text[j] = "["
        THEN LET k == SkipWs(text, j + 1)
             IN  IF k <= Len(text) /\ text[k] = "]" THEN Parsed(JArr(<<>>), k + 1)
                 ELSE ParseElements(text, j + 1, <<>>)
        ELSE IF text[j] = "{"
        THEN LET k == SkipWs(text, j + 1)
             IN  IF k <= Len(text) /\ text[k] = "}" THEN Parsed(JPairs(<<>>), k + 1)
                 ELSE ParseMembers(text, j + 1, <<>>)
        ELSE IF text[j] = "0" THEN Parsed(JNum(0), j + 1)
        ELSE IF text[j] \in Digits THEN ParseDigits(text, j, 0)
        ELSE IF StartsWith(text, j, <<"n", "u", "l", "l">>) THEN Parsed(JNull, j + 4)
        ELSE IF StartsWith(text, j, <<"t", "r", "u", "e">>) THEN Parsed(JBool(TRUE), j + 4)
        ELSE IF StartsWith(text, j, <<"f", "a", "l", "s", "e">>) THEN Parsed(JBool(FALSE), j + 5)
        ELSE Fail

\* JSON.parse(text): the value, or a failure when it throws.
JSONparse(text) ==
    LET v == ParseValue(text, 1)
    IN  IF v.ok /\ SkipWs(text, v.next) = Len(text) + 1 THEN v ELSE Fail

\* text.replace(/pat\n?/g, ''), pat a literal text
RECURSIVE RemoveAll(_, _)
RemoveAll(text, pat) ==
    IF text = <<>> THEN <<>>
    ELSE IF StartsWith(text, 1, pat)
    THEN LET after == SubSeq(text, Len(pat) + 1, Len(text))
         IN  RemoveAll(IF after /= <<>> /\ after[1] = "\n" THEN Tail(after) ELSE after, pat)
    ELSE <<text[1]>> \o RemoveAll(Tail(text), pat)

\* text.trim()
RECURSIVE TrimText(_)
TrimText(text) ==
    IF text = <<>> THEN text
    ELSE IF text[1] \in WhiteSpace THEN TrimText(Tail(text))
    ELSE IF text[Len(text)] \in WhiteSpace THEN TrimText(SubSeq(text, 1, Len(text) - 1))
    ELSE text

\* The grave accent, the character of a code fence, is written GRAVE.
Backtick == "GRAVE"

Fence == <<Backtick, Backtick, Backtick>>

\* Step 1: the code fences are removed wherever they stand, then the text
\* is trimmed.
StripFences(text) ==
    TrimText(RemoveAll(RemoveAll(text, Fence \o <<"j", "s", "o", "n">>), Fence))

\* The characters after which the regular expression of step 2 leaves a
\* backslash alone: b, f, n, r, t, u, the quote and the slash (its second
\* alternative, u and four hex digits, adds nothing to the first).
KeptAfterBackslash == {"b", "f", "n", "r", "t", "u", "\"", "/"}

\* Step 2: every backslash that no such character follows is doubled.
RECURSIVE FixBackslashes(_)
FixBackslashes(text) ==
    IF text = <<>> THEN <<>>
    ELSE IF text[1] = "\\" /\ ~(Len(text) > 1 /\ text[2] \in KeptAfterBackslash)
    THEN <<"\\", "\\">> \o FixBackslashes(Tail(text))
    ELSE <<text[1]>> \o FixBackslashes(Tail(text))

\* text.lastIndexOf(c) + 1, 0 when c does not occur
LastIndexOf(text, c) ==
    IF \E i \in 1..Len(text) : text[i] = c
    THEN CHOOSE i \in 1..Len(text) : text[i] = c /\ \A k \in (i + 1)..Len(text) : text[k] /= c
    ELSE 0

\* (text.match(/c/g) || []).length
Count(text, c) == Cardinality({i \in 1..Len(text) : text[i] = c})

Repeat(c, n) == [i \in 1..n |-> c]

\* Step 3: a text that does not end with ] or } gets a closing quote when
\* its last quote stands after its last colon, then the braces and the
\* brackets it opens more often than it closes.
RepairTruncated(text) ==
    IF text /= <<>> /\ text[Len(text)] \in {"]", "}"} THEN text
    ELSE LET quoted == IF LastIndexOf(text, "\"") > LastIndexOf(text, ":")
                       THEN Append(text, "\"") ELSE text
             openBraces == Count(quoted, "{") - Count(quoted, "}")
             openBrackets == Count(quoted, "[") - Count(quoted, "]")
         IN  quoted \o Repeat("}", Max(openBraces, 0)) \o Repeat("]", Max(openBrackets, 0))

cleanJSONResponse(text) ==
    IF text = <<>> THEN <<>>
    ELSE LET stripped == StripFences(text)
         IN  IF JSONparse(stripped).ok THEN stripped
             ELSE RepairTruncated(FixBackslashes(stripped))

-----------------------------------------------------------------------------
(* POST /generate-mcq and generateMCQs *)

RECURSIVE BuildBatches(_, _, _)
BuildBatches(remainingEasy, remainingMedium, remainingHard) ==
    IF ~(remainingEasy > 0 \/ remainingMedium > 0 \/ remainingHard > 0) THEN <<>>
    ELSE LET batchEasy == Min(remainingEasy, BATCH_SIZE)
             batchMedium == Min(remainingMedium, Max(0, BATCH_SIZE - batchEasy))
             batchHard ==
                 Min(remainingHard, Max(0, BATCH_SIZE - (batchEasy + batchMedium)))
             rest == BuildBatches(remainingEasy - batchEasy,
                                  remainingMedium - batchMedium,
                                  remainingHard - batchHard)
         IN  IF batchEasy + batchMedium + batchHard > 0
             THEN << [easyCount |-> batchEasy, mediumCount |-> batchMedium,
                      hardCount |-> batchHard] >> \o rest
             ELSE rest

Request(material, easy, medium, hard, expl, file) ==
    [op |-> "generate", studyMaterial |-> Str(material), easyCount |-> easy,
     mediumCount |-> medium, hardCount |-> hard, includeExplanation |-> expl, file |-> file]

\* A request to /solve-mcq: its body and its file.
SolveRequest(text, expl, file) ==
    [op |-> "solve", mcqText |-> Str(text), includeExplanation |-> expl, file |-> file]

SolveRequests ==
    { SolveRequest(<<"q">>, TRUE, "none"), SolveRequest(<<>>, FALSE, "pptx"),
      SolveRequest(<<" ">>, TRUE, "none") }

NoRequest == Request(<<>>, 0, 0, 0, FALSE, "none")

\* Validated generation requests; file is "none", "pdf" (passed to the model
\* as it is) or "pptx" (text extracted first).
GenRequests ==
    { Request(<<"a">>, 4, 0, 0, TRUE, "none"),
      Request(<<"a">>, 2, 0, 0, TRUE, "none"),
      Request(<<"a">>, 2, 0, 0, FALSE, "none"),
      Request(<<"a", "|", "2">>, 3, 1, 0, TRUE, "none"),
      Request(<<"a">>, 2, 0, 0, TRUE, "pdf"),
      Request(<<"a">>, 1, 0, 0, FALSE, "pdf"),
      Request(<<"a">>, 0, 1, 1, FALSE, "pptx") }

totalCount_Easy(q) == q.easyCount

totalCount(q) == q.easyCount + q.mediumCount + q.hardCount

\* What JSON.parse(cleanJSONResponse(text)) makes of the provider's text: a
\* parse error, a value that is no array, or an array whose items are
\* objects ("obj") or not ("junk").
RECURSIVE SeqsUpTo(_, _)
SeqsUpTo(S, n) ==
    IF n = 0 THEN {<<>>}
    ELSE LET shorter == SeqsUpTo(S, n - 1)
         IN  shorter \cup {Append(x, y) : x \in shorter, y \in S}

\* A parsed value: an array of items, an object with its members in the
\* order of the text (key and value), or a string; "unparseable" stands for
\* a text JSON.parse throws on.
Unparseable == [kind |-> "unparseable", items |-> <<>>, members |-> <<>>]

ArrayOf(items) == [kind |-> "array", items |-> items, members |-> <<>>]

ObjectOf(members) == [kind |-> "object", items |-> <<>>, members |-> members]

StringValue == [kind |-> "string", items |-> <<>>, members |-> <<>>]

ServerBodies ==
    { Unparseable, ObjectOf(<<>>),
      ObjectOf(<< <<"results", ArrayOf(<<"obj", "obj">>)>>, <<"questions", ArrayOf(<<"obj">>)>> >>) }
        \cup {ArrayOf(x) : x \in SeqsUpTo({"obj", "junk"}, MaxRecords)}

\* mcqs.filter(mcq => mcq && typeof mcq === 'object')
Objects(items) == SelectSeq(items, LAMBDA x : x = "obj")

\* What a function makes of the parsed value: the message of the error it
\* throws, or the items it goes on with.
Threw(message) == [threw |-> TRUE, message |-> message, items |-> <<>>]

Returned(items) == [threw |-> FALSE, message |-> "", items |-> items]

\* generateMCQs from JSON.parse to the test of the filtered array: mcqs.filter
\* is a TypeError when mcqs is no array.
generateRecords(body) ==
    IF body.kind = "unparseable" THEN Threw("unparseable")
    ELSE IF body.kind /= "array" THEN Threw("mcqs.filter is not a function")
    ELSE IF Len(Objects(body.items)) = 0 /\ Len(body.items) > 0
    THEN Threw("All generated MCQs were malformed. Please try again or refine your material.")
    ELSE Returned(Objects(body.items))

possibleArrays == <<"mcqs", "questions", "answers", "results">>

\* mcqs[key] of a parsed object; a key it does not have gives no array.
Held(body, key) ==
    IF \E i \in 1..Len(body.members) : body.members[i][1] = key
    THEN body.members[CHOOSE i \in 1..Len(body.members) : body.members[i][1] = key][2]
    ELSE StringValue

\* for (const key of possibleArrays): the first key that holds an array
\* gives mcqs; without one mcqs stays what it was.
RECURSIVE Probe(_, _)
Probe(body, keys) ==
    IF keys = <<>> THEN body
    ELSE IF Held(body, keys[1]).kind = "array" THEN Held(body, keys[1])
    ELSE Probe(body, Tail(keys))

\* The value solveMCQs goes on with when the parsed value is no array.
Unwrapped(body) == IF body.kind = "object" THEN Probe(body, possibleArrays) ELSE body

\* solveMCQs from JSON.parse to the test of the normalized array.
solveRecords(body) ==
    IF body.kind = "unparseable"
    THEN Threw("Failed to parse AI response as JSON. The AI may have returned an invalid format.")
    ELSE LET mcqs == IF body.kind = "array" THEN body ELSE Unwrapped(body)
         IN  IF mcqs.kind /= "array"
             THEN Threw("Invalid response format: expected array of MCQs")
             ELSE IF Len(Objects(mcqs.items)) = 0
             THEN Threw("No valid MCQs could be extracted from the AI response")
             ELSE Returned(Objects(mcqs.items))

\* The j-th object of a provider's answer, in the provider's own words: one
\* with field names and shapes of its own, the next in the canonical form.
ProviderObject(j) ==
    IF j % 2 = 1
    THEN JObj([Question |-> JStr(<<"q">>),
               choices |-> JArr(<<JStr(<<"w">>), JStr(<<"x">>)>>),
               answer |-> JStr(<<"b", ")">>),
               reasoning |-> JStr(<<"e">>)])
    ELSE JObj([question |-> JStr(<<"q">>),
               options |-> JObj([A |-> JStr(<<"w">>), B |-> JStr(<<"x">>),
                                 C |-> JStr(<<>>), D |-> JStr(<<>>)]),
               correctAnswer |-> JStr(<<"C">>),
               explanation |-> JStr(<<>>)])

\* The objects of the answer to batch b of request r as generateMCQs returns
\* them: the j-th is <<r, b, j, object>>, the provider's object as it came,
\* unlike the records of every other answer.
validOf(items, r, b) == [j \in 1..Len(Objects(items)) |-> <<r, b, j, ProviderObject(j)>>]

\* The same objects as solveMCQs returns them: each one through normalizeMCQ
\* (which gives null for an item that is no object, and the nulls are dropped).
normalizedOf(items, r) ==
    [j \in 1..Len(Objects(items)) |-> <<r, 1, j, normalizeMCQ(ProviderObject(j))>>]

\* The answer, batch and position a record came from.
Origin(record) == <<record[1], record[2], record[3]>>

ClearEngine(r) ==
    /\ modelIdx' = [modelIdx EXCEPT ![r] = 0]
    /\ attempt' = [attempt EXCEPT ![r] = 0]
    /\ error' = [error EXCEPT ![r] = NoError]
    /\ lastError' = [lastError EXCEPT ![r] = NoError]
    /\ waitTime' = [waitTime EXCEPT ![r] = Num(0, 1)]
    /\ result' = [result EXCEPT ![r] = NoResult]
    /\ calls' = [calls EXCEPT ![r] = <<>>]

\* The request arrives: validation has passed, the batches are built.
ReceiveGenerate(r, q) ==
    /\ pc[r] = "idle"
    /\ pc' = [pc EXCEPT ![r] = "received"]
    /\ req' = [req EXCEPT ![r] = q]
    /\ batches' = [batches EXCEPT ![r] =
                      BuildBatches(q.easyCount, q.mediumCount, q.hardCount)]
    /\ bi' = [bi EXCEPT ![r] = 1]
    /\ completedInRequest' = [completedInRequest EXCEPT ![r] = 0]
    /\ stream' = [stream EXCEPT ![r] = <<>>]
    /\ events' = Append(events, <<"received", r>>)
    /\ UNCHANGED <<candidates, input, output, engineVars, thrown, sleeps, invocations>>
    /\ UNCHANGED <<cacheKey, genOut, cache, hits, failed>>

\* generateMCQs is called for batches[i] (after the 1 s spacing when i > 0):
\* the cache is looked up; a hit returns the stored array, a miss goes on to
\* the extraction of a presentation or to generateWithFallback.
StartBatch(r) ==
    /\ pc[r] \in {"received", "delay"}
    /\ LET k == CacheKey(req[r], batches[r][bi[r]])
       IN  /\ cacheKey' = [cacheKey EXCEPT ![r] = k]
           /\ IF k /= Null /\ Has(cache, k)
              THEN /\ pc' = [pc EXCEPT ![r] = "gen_returned"]
                   /\ genOut' = [genOut EXCEPT ![r] = Get(cache, k)]
                   /\ cache' = AfterGet(cache, k)
                   /\ hits' = [hits EXCEPT ![r] = hits[r] \cup {bi[r]}]
              ELSE /\ pc' = [pc EXCEPT ![r] =
                                IF req[r].file = "pptx" THEN "extracting" ELSE "eng_call"]
                   /\ UNCHANGED <<genOut, cache, hits>>
    /\ UNCHANGED <<candidates, input, output, engineVars, thrown, sleeps, invocations>>
    /\ UNCHANGED <<req, batches, bi, completedInRequest, stream, failed, events>>

\* extractTextFromPPT resolves.
ExtractSucceeds(r) ==
    /\ pc[r] = "extracting"
    /\ pc' = [pc EXCEPT ![r] = "eng_call"]
    /\ UNCHANGED <<engineVars, thrown, sleeps, invocations, hostVars>>

\* extractTextFromPPT rejects; generateMCQs or solveMCQs wraps the error and
\* rethrows.
ExtractFails(r) ==
    /\ pc[r] = "extracting"
    /\ pc' = [pc EXCEPT ![r] = IF req[r].op = "solve" THEN "solve_threw" ELSE "gen_threw"]
    /\ thrown' = [thrown EXCEPT ![r] =
                     << IF req[r].op = "solve" THEN "Failed to solve MCQs: "
                        ELSE "Failed to generate MCQs: ",
                        "Failed to extract text from PPT file" >>]
    /\ UNCHANGED <<engineVars, sleeps, invocations, hostVars>>

\* generateWithFallback has returned; response.text() is read (body is what
\* the text parses to after cleaning): the text is cleaned, parsed and
\* filtered, a non-empty result of a text request is stored, and the array
\* is returned; a throw on the way is wrapped and rethrown.
GenFinish(r, body) ==
    /\ pc[r] = "eng_returned"
    /\ req[r].op = "generate"
    /\ result[r].body = "text"
    /\ LET out == generateRecords(body)
           validMcqs == validOf(out.items, r, bi[r])
       IN  IF out.threw
           THEN /\ pc' = [pc EXCEPT ![r] = "gen_threw"]
                /\ thrown' = [thrown EXCEPT ![r] =
                                 <<"Failed to generate MCQs: ", out.message>>]
                /\ UNCHANGED <<genOut, cache>>
           ELSE /\ pc' = [pc EXCEPT ![r] = "gen_returned"]
                /\ genOut' = [genOut EXCEPT ![r] = validMcqs]
                /\ cache' = IF ShouldStore(cacheKey[r], validMcqs)
                            THEN Store(cache, cacheKey[r], validMcqs,
                                       KeyInputs(req[r], batches[r][bi[r]]))
                            ELSE cache
                /\ thrown' = thrown
    /\ ClearEngine(r)
    /\ UNCHANGED <<candidates, input, output, sleeps, invocations, req, batches, bi,
                   completedInRequest, stream, cacheKey, hits, failed, events>>

\* generateWithFallback has thrown: generateMCQs wraps the error and rethrows.
GenCatch(r) ==
    /\ pc[r] = "eng_threw"
    /\ req[r].op = "generate"
    /\ pc' = [pc EXCEPT ![r] = "gen_threw"]
    /\ thrown' = [thrown EXCEPT ![r] = <<"Failed to generate MCQs: ">> \o thrown[r]]
    /\ ClearEngine(r)
    /\ UNCHANGED <<sleeps, invocations, hostVars>>

\* The next batch starts without the spacing.
NextBatch_NoDelay(r, written) ==
    IF bi[r] < Len(batches[r])
    THEN /\ pc' = [pc EXCEPT ![r] = "received"]
         /\ bi' = [bi EXCEPT ![r] = bi[r] + 1]
         /\ stream' = [stream EXCEPT ![r] = written]
         /\ events' = events
    ELSE /\ pc' = [pc EXCEPT ![r] = "done"]
         /\ bi' = bi
         /\ stream' = [stream EXCEPT ![r] = Append(written, [completed |-> TRUE])]
         /\ events' = Append(events, <<"done", r>>)

\* The stream ends without the completion chunk.
NextBatch_NoMarker(r, written) ==
    IF bi[r] < Len(batches[r])
    THEN /\ pc' = [pc EXCEPT ![r] = "delay"]
         /\ bi' = [bi EXCEPT ![r] = bi[r] + 1]
         /\ stream' = [stream EXCEPT ![r] = written]
         /\ events' = events
    ELSE /\ pc' = [pc EXCEPT ![r] = "done"]
         /\ bi' = bi
         /\ stream' = [stream EXCEPT ![r] = written]
         /\ events' = Append(events, <<"done", r>>)

\* i++ of the batch loop: the 1 s spacing before the next batch, or, past
\* the last batch, the completion chunk and res.end().
NextBatch(r, written) ==
    IF bi[r] < Len(batches[r])
    THEN /\ pc' = [pc EXCEPT ![r] = "delay"]
         /\ bi' = [bi EXCEPT ![r] = bi[r] + 1]
         /\ stream' = [stream EXCEPT ![r] = written]
         /\ events' = events
    ELSE /\ pc' = [pc EXCEPT ![r] = "done"]
         /\ bi' = bi
         /\ stream' = [stream EXCEPT ![r] = Append(written, [completed |-> TRUE])]
         /\ events' = Append(events, <<"done", r>>)

\* generateMCQs has returned mcqs: the chunk is written at once.
RouteChunk(r) ==
    /\ pc[r] = "gen_returned"
    /\ completedInRequest' =
           [completedInRequest EXCEPT ![r] = completedInRequest[r] + Len(genOut[r])]
    /\ NextBatch(r, Append(stream[r],
                           [mcqs |-> genOut[r], completed |-> FALSE,
                            total |-> totalCount(req[r]),
                            current |-> completedInRequest[r] + Len(genOut[r])]))
    /\ genOut' = [genOut EXCEPT ![r] = <<>>]
    /\ cacheKey' = [cacheKey EXCEPT ![r] = Null]
    /\ UNCHANGED <<candidates, input, output, engineVars, thrown, sleeps, invocations>>
    /\ UNCHANGED <<req, batches, cache, hits, failed>>

\* A failed batch ends the request.
RouteCatch_Abort(r) ==
    /\ pc[r] = "gen_threw"
    /\ pc' = [pc EXCEPT ![r] = "done"]
    /\ stream' = [stream EXCEPT ![r] = Append(stream[r], [completed |-> TRUE])]
    /\ events' = Append(events, <<"done", r>>)
    /\ failed' = [failed EXCEPT ![r] = failed[r] \cup {bi[r]}]
    /\ thrown' = [thrown EXCEPT ![r] = <<>>]
    /\ cacheKey' = [cacheKey EXCEPT ![r] = Null]
    /\ UNCHANGED <<candidates, input, output, engineVars, sleeps, invocations>>
    /\ UNCHANGED <<req, batches, bi, completedInRequest, genOut, cache, hits>>

\* generateMCQs has thrown: the error is logged, the loop goes on.
RouteCatch(r) ==
    /\ pc[r] = "gen_threw"
    /\ NextBatch(r, stream[r])
    /\ failed' = [failed EXCEPT ![r] = failed[r] \cup {bi[r]}]
    /\ thrown' = [thrown EXCEPT ![r] = <<>>]
    /\ cacheKey' = [cacheKey EXCEPT ![r] = Null]
    /\ UNCHANGED <<candidates, input, output, engineVars, sleeps, invocations>>
    /\ UNCHANGED <<req, batches, completedInRequest, genOut, cache, hits>>

-----------------------------------------------------------------------------
(* POST /solve-mcq and solveMCQs *)

\* validateTextLength as validateSolvingRequest calls it: the message it
\* throws, or none.
validateTextLength(text) ==
    IF text = <<>> THEN <<"Invalid text input">>
    ELSE IF Trim(text) = <<>> THEN <<"Text input cannot be empty">>
    ELSE <<>>

\* The message validateSolvingRequest throws for a body and a file, or none.
validateSolvingRequest(q) ==
    IF q.file = "none" /\ validateTextLength(q.mcqText) /= <<>>
    THEN <<"MCQ Text: ">> \o validateTextLength(q.mcqText)
    ELSE <<>>

\* The 500 response is preceded by a content chunk.
ErrorResponse_AfterChunk(message) ==
    <<[mcqs |-> <<>>, completed |-> FALSE, total |-> 0, current |-> 0]>>
        \o <<[status |-> 500, success |-> FALSE, error |-> message]>>

\* The 500 response of the route's catch, written when no header was sent.
ErrorResponse(message) == <<[status |-> 500, success |-> FALSE, error |-> message]>>

\* The completion chunk is left out.
SolveChunks_NoMarker(mcqs) ==
    <<[mcqs |-> mcqs, completed |-> FALSE, total |-> Len(mcqs), current |-> Len(mcqs)]>>

\* What the route writes for the records solveMCQs returned: one chunk with
\* all of them, then the completion chunk.
SolveChunks(mcqs) ==
    << [mcqs |-> mcqs, completed |-> FALSE, total |-> Len(mcqs), current |-> Len(mcqs)],
       [completed |-> TRUE] >>

\* The request arrives. When validation throws, the route's catch answers 500
\* at once; otherwise solveMCQs runs up to its first await, the extraction of
\* a presentation or the provider call.
ReceiveSolve(r, q) ==
    /\ pc[r] = "idle"
    /\ req' = [req EXCEPT ![r] = q]
    /\ IF validateSolvingRequest(q) /= <<>>
       THEN /\ pc' = [pc EXCEPT ![r] = "done"]
            /\ stream' = [stream EXCEPT ![r] = ErrorResponse(validateSolvingRequest(q))]
            /\ events' = Append(Append(events, <<"received", r>>), <<"done", r>>)
       ELSE /\ pc' = [pc EXCEPT ![r] = IF q.file = "pptx" THEN "extracting" ELSE "eng_call"]
            /\ stream' = stream
            /\ events' = Append(events, <<"received", r>>)
    /\ UNCHANGED <<candidates, input, output, engineVars, thrown, sleeps, invocations>>
    /\ UNCHANGED <<batches, bi, completedInRequest, cacheKey, genOut, cache, hits, failed>>

\* generateWithFallback has returned; the text is cleaned and parsed, the
\* items are normalized and the nulls dropped; an empty result throws.
SolveFinish(r, body) ==
    /\ pc[r] = "eng_returned"
    /\ req[r].op = "solve"
    /\ result[r].body = "text"
    /\ LET out == solveRecords(body)
       IN  IF out.threw
           THEN /\ pc' = [pc EXCEPT ![r] = "solve_threw"]
                /\ genOut' = genOut
                /\ thrown' = [thrown EXCEPT ![r] = <<"Failed to solve MCQs: ", out.message>>]
           ELSE /\ pc' = [pc EXCEPT ![r] = "solve_returned"]
                /\ genOut' = [genOut EXCEPT ![r] = normalizedOf(out.items, r)]
                /\ thrown' = thrown
    /\ ClearEngine(r)
    /\ UNCHANGED <<candidates, input, output, sleeps, invocations, req, batches, bi,
                   completedInRequest, stream, cacheKey, cache, hits, failed, events>>

\* generateWithFallback has thrown: solveMCQs wraps the error and rethrows.
SolveCatch(r) ==
    /\ pc[r] = "eng_threw"
    /\ req[r].op = "solve"
    /\ pc' = [pc EXCEPT ![r] = "solve_threw"]
    /\ thrown' = [thrown EXCEPT ![r] = <<"Failed to solve MCQs: ">> \o thrown[r]]
    /\ ClearEngine(r)
    /\ UNCHANGED <<sleeps, invocations, hostVars>>

\* solveMCQs has returned: one chunk, the completion chunk, res.end().
SolveRespond(r) ==
    /\ pc[r] = "solve_returned"
    /\ pc' = [pc EXCEPT ![r] = "done"]
    /\ stream' = [stream EXCEPT ![r] = SolveChunks(genOut[r])]
    /\ genOut' = [genOut EXCEPT ![r] = <<>>]
    /\ events' = Append(events, <<"done", r>>)
    /\ UNCHANGED <<candidates, input, output, engineVars, thrown, sleeps, invocations>>
    /\ UNCHANGED <<req, batches, bi, completedInRequest, cacheKey, cache, hits, failed>>

\* solveMCQs has thrown: nothing was written, the route answers 500.
SolveError(r) ==
    /\ pc[r] = "solve_threw"
    /\ pc' = [pc EXCEPT ![r] = "done"]
    /\ stream' = [stream EXCEPT ![r] = ErrorResponse(thrown[r])]
    /\ thrown' = [thrown EXCEPT ![r] = <<>>]
    /\ events' = Append(events, <<"done", r>>)
    /\ UNCHANGED <<candidates, input, output, engineVars, sleeps, invocations>>
    /\ UNCHANGED <<req, batches, bi, completedInRequest, cacheKey, genOut, cache, hits,
                   failed>>

-----------------------------------------------------------------------------
(* The server: up to MaxRequests generation requests, interleaved at their *)
(* suspension points; the provider answers each call as it likes, with at  *)
(* most MaxSleeps answers that make the engine wait.                       *)

Boot(list, pc0) ==
    /\ candidates = list
    /\ pc = pc0
    /\ modelIdx = [r \in Procs |-> 0]
    /\ attempt = [r \in Procs |-> 0]
    /\ error = [r \in Procs |-> NoError]
    /\ lastError = [r \in Procs |-> NoError]
    /\ waitTime = [r \in Procs |-> Num(0, 1)]
    /\ result = [r \in Procs |-> NoResult]
    /\ thrown = [r \in Procs |-> <<>>]
    /\ calls = [r \in Procs |-> <<>>]
    /\ sleeps = 0
    /\ invocations = [r \in Procs |-> 0]
    /\ req = [r \in Procs |-> NoRequest]
    /\ batches = [r \in Procs |-> <<>>]
    /\ bi = [r \in Procs |-> 0]
    /\ completedInRequest = [r \in Procs |-> 0]
    /\ stream = [r \in Procs |-> <<>>]
    /\ cacheKey = [r \in Procs |-> Null]
    /\ genOut = [r \in Procs |-> <<>>]
    /\ cache = <<>>
    /\ hits = [r \in Procs |-> {}]
    /\ failed = [r \in Procs |-> {}]
    /\ events = <<>>
    /\ input = <<>>
    /\ output = <<>>

Init == Boot(SubSeq(MODELS, 1, ServerModels), [r \in Procs |-> "idle"])

\* The continuations of the settled promises of a request: those of the
\* engine and the extraction, of the generation route, of the solving route.
EngineSteps(r) ==
    \/ ExtractSucceeds(r)
    \/ ExtractFails(r)
    \/ Invoke(r)
    \/ ProviderSucceeds(r, "text")
    \/ \E e \in CoarseErrors :
          /\ MayRetry(e, attempt[r]) => sleeps < MaxSleeps
          /\ ProviderFails(r, e)
    \/ Wake(r)

GenerateSteps(r) ==
    \/ StartBatch(r)
    \/ \E b \in ServerBodies : GenFinish(r, b)
    \/ GenCatch(r)
    \/ RouteChunk(r)
    \/ RouteCatch(r)

SolveSteps(r) ==
    \/ \E b \in ServerBodies : SolveFinish(r, b)
    \/ SolveCatch(r)
    \/ SolveRespond(r)
    \/ SolveError(r)

Progress(r) == EngineSteps(r) \/ GenerateSteps(r) \/ SolveSteps(r)

Next ==
    \E r \in Procs :
        \/ \E q \in GenRequests : ReceiveGenerate(r, q)
        \/ \E q \in SolveRequests : ReceiveSolve(r, q)
        \/ Progress(r)

Spec == Init /\ [][Next]_vars

\* One generation request, served alone; every settled promise (provider
\* call, timer, extraction) has its continuation run.
NextStream ==
    \/ \E q \in GenRequests : ReceiveGenerate(1, q)
    \/ EngineSteps(1)
    \/ GenerateSteps(1)

SpecStream ==
    Init /\ [][NextStream]_vars /\ WF_vars(EngineSteps(1) \/ GenerateSteps(1))

-----------------------------------------------------------------------------
(* The batch scheduler alone, over all tier counts up to MaxCount *)

MaxCount == 5

SchedulerRequests ==
    { Request(<<"a">>, e, m, h, TRUE, "none") :
          e \in 0..MaxCount, m \in 0..MaxCount, h \in 0..MaxCount }

InitScheduler == Boot(MODELS, [r \in Procs |-> "idle"])

NextScheduler ==
    \E q \in SchedulerRequests : totalCount(q) >= 1 /\ ReceiveGenerate(1, q)

SpecScheduler == InitScheduler /\ [][NextScheduler]_vars

-----------------------------------------------------------------------------
(* One direct invocation of generateWithFallback, any provider behaviour *)

EngineBodies == {"text", "text2"}

InitEngine == Boot(MODELS, [r \in Procs |-> IF r = 1 THEN "eng_call" ELSE "idle"])

NextEngine ==
    \/ Invoke(1)
    \/ \E b \in EngineBodies : ProviderSucceeds(1, b)
    \/ \E e \in ProviderErrors : ProviderFails(1, e)
    \/ Wake(1)

SpecEngine == InitEngine /\ [][NextEngine]_vars

\* The same invocation when every promise it awaits settles: the provider
\* call resolves or rejects, the timer of sleep() fires.
SpecEngineFair == SpecEngine /\ WF_vars(NextEngine)

-----------------------------------------------------------------------------
(* The normalizers alone, over answer values and option shapes *)

\* A function is applied on its own, once: fn names it, arg is its argument.
Apply(fn, arg, out) ==
    /\ input' = [fn |-> fn, arg |-> arg]
    /\ output' = out
    /\ UNCHANGED <<pc, engineVars, thrown, sleeps, invocations, candidates, req, batches, bi,
                   completedInRequest, stream, cacheKey, genOut, cache, hits, failed, events>>

MaxAnswerLen == 2

MaxOptions == 5

AnswerFields ==
    {"correctAnswer", "correct_answer", "answer", "Answer", "correct_option", "selected_option"}

AnswerChars == {" ", ")", "A", "D", "E", "Z", "[", "a", "d", "e", "t"}

AnswerValues ==
    {JStr(a) : a \in SeqsUpTo(AnswerChars, MaxAnswerLen)}
        \cup {JNull, JNum(0), JNum(1), JBool(TRUE), JObj(<<>>), JArr(<<JStr(<<"b">>)>>)}

OptionKeys == {"A", "B", "C", "D", "a", "b", "c", "d"}

\* An object whose keys hold the empty string or a text of their own.
KeyedOptions(f) == JObj([k \in DOMAIN f |-> IF f[k] THEN JStr(<<"option ", k>>) ELSE JStr(<<>>)])

OptionShapes ==
    {JNull, JStr(<<>>), JStr(<<"w">>), JNum(4)}
        \cup {JArr(x) : x \in SeqsUpTo({JStr(<<>>), JStr(<<"w">>), JNull}, MaxOptions)}
        \cup {KeyedOptions(f) : f \in UNION {[S -> BOOLEAN] : S \in SUBSET OptionKeys}}

OptionValues == {JNull, JStr(<<>>), JStr(<<"w">>), JStr(<<"x">>)}

\* normalizeMCQ on a record with one answer field, or two.
NormalizeAnswer ==
    /\ input = <<>>
    /\ \E f \in AnswerFields, v \in AnswerValues :
           \E g \in AnswerFields, w \in {JStr(<<>>), JStr(<<"c">>)} :
               LET mcq == JObj([k \in {f, g} |-> IF k = f THEN v ELSE w])
               IN  Apply("normalizeMCQ", mcq, normalizeMCQ(mcq))

\* normalizeMCQ on a record whose options have any shape, or are missing.
NormalizeShape ==
    /\ input = <<>>
    /\ \/ \E name \in {"options", "Options", "choices"}, o \in OptionShapes :
              LET mcq == JObj([k \in {name} |-> o])
              IN  Apply("normalizeMCQ", mcq, normalizeMCQ(mcq))
       \/ \E mcq \in {JObj(<<>>), JNull, JStr(<<"w">>), JArr(<<>>)} :
              Apply("normalizeMCQ", mcq, normalizeMCQ(mcq))

\* normalizeOptions on the same four values as an array, as an object keyed
\* A-D and as an object keyed a-d.
NormalizeThreeWays ==
    /\ input = <<>>
    /\ \E x \in [1..4 -> OptionValues] :
           Apply("normalizeOptions", x,
                 << normalizeOptions(JArr(x)),
                    normalizeOptions(JObj([A |-> x[1], B |-> x[2], C |-> x[3], D |-> x[4]])),
                    normalizeOptions(JObj([a |-> x[1], b |-> x[2], c |-> x[3], d |-> x[4]])) >>)

NextNormalize == NormalizeAnswer \/ NormalizeShape \/ NormalizeThreeWays

SpecNormalize == Init /\ [][NextNormalize]_vars

-----------------------------------------------------------------------------
(* cleanJSONResponse on its own: texts that are valid JSON, arrays cut *)
(* short, and arrays with one unescaped backslash.                     *)

Quoted(body) == <<"\"">> \o body \o <<"\"">>

Member(key, body) == Quoted(key) \o <<":">> \o Quoted(body)

RECURSIVE Joined(_)
Joined(texts) ==
    IF texts = <<>> THEN <<>>
    ELSE IF Len(texts) = 1 THEN texts[1]
    ELSE texts[1] \o <<",">> \o Joined(Tail(texts))

ObjectText(members) == <<"{">> \o Joined(members) \o <<"}">>

ArrayText(items) == <<"[">> \o Joined(items) \o <<"]">>

MaxPieces == 2

\* What a string of a valid JSON text is written with: letters, a colon,
\* grave accents, escapes.
Pieces ==
    { <<"a">>, <<":">>, Fence, <<Backtick, Backtick>>, <<"\\", "n">>, <<"\\", "\\">>,
      <<"\\", "\"">>, <<"\\", "u", "0", "0", "4", "1">> }

RECURSIVE Flat(_)
Flat(pieces) == IF pieces = <<>> THEN <<>> ELSE pieces[1] \o Flat(Tail(pieces))

Bodies(n) == {Flat(ps) : ps \in SeqsUpTo(Pieces, n)}

\* An array of one record with one explanation.
OneRecord(body) == ArrayText(<<ObjectText(<<Member(<<"e">>, body)>>)>>)

\* The text as the provider wraps it: bare, padded, or in a code fence.
Wrapped(text, how) ==
    CASE how = "bare" -> text
      [] how = "padded" -> <<" ">> \o text \o <<"\n">>
      [] how = "fenced" -> Fence \o <<"j", "s", "o", "n", "\n">> \o text \o <<"\n">> \o Fence

\* cleanJSONResponse on a text that is valid JSON, however wrapped.
SanitizeWhole ==
    /\ input = <<>>
    /\ \E body \in Bodies(MaxPieces), how \in {"bare", "padded", "fenced"} :
           LET text == Wrapped(OneRecord(body), how)
           IN  Apply("cleanJSONResponse", text, cleanJSONResponse(text))

\* The records of the arrays that are cut short.
WholeArrays ==
    { << ObjectText(<<Member(<<"q">>, <<"a">>)>>),
         ObjectText(<<Member(<<"q">>, <<"b", ":", "c">>), Member(<<"k">>, <<"d">>)>>) >>,
      << ObjectText(<<Member(<<"q">>, <<"a">>), Member(<<"k">>, <<"b">>)>>),
         ObjectText(<<Member(<<"q">>, <<"c">>)>>),
         ObjectText(<<Quoted(<<"o">>) \o <<":", "[">> \o Quoted(<<"d">>) \o <<"]">>>>) >> }

\* The places where an array is cut after its first record at the earliest
\* and before its closing bracket at the latest.
Cuts(records) == (1 + Len(records[1]))..(Len(ArrayText(records)) - 1)

\* The number of records that stand whole in the first k characters.
CompleteRecords(records, k) ==
    Cardinality({n \in 1..Len(records) : Len(<<"[">> \o Joined(SubSeq(records, 1, n))) <= k})

\* cleanJSONResponse on an array cut after at least one whole record.
SanitizeTruncated ==
    /\ input = <<>>
    /\ \E records \in WholeArrays :
           \E k \in Cuts(records) :
               LET text == SubSeq(ArrayText(records), 1, k)
               IN  Apply("cleanJSONResponse", text, cleanJSONResponse(text))

\* Characters that make no JSON escape after a backslash.
NonEscapes == {"a", "l", " ", Backtick}

\* An array that is valid JSON but for one backslash before the character c.
Unescaped(pre, c, post) == OneRecord(pre \o <<"\\", c>> \o post)

\* cleanJSONResponse on an array with one unescaped backslash.
SanitizeBackslash ==
    /\ input = <<>>
    /\ \E pre \in Bodies(1), c \in NonEscapes, post \in Bodies(1) :
           Apply("cleanJSONResponse", Unescaped(pre, c, post),
                 cleanJSONResponse(Unescaped(pre, c, post)))

NextSanitize == SanitizeWhole \/ SanitizeTruncated \/ SanitizeBackslash

SpecSanitize == Init /\ [][NextSanitize]_vars

-----------------------------------------------------------------------------
(* generateMCQs and solveMCQs from the parsed value on: arrays, objects *)
(* that wrap arrays, and other values.                                  *)

ParsedArrays == {ArrayOf(x) : x \in SeqsUpTo({"obj", "junk"}, MaxRecords)}

MemberKeys == {"mcqs", "questions", "answers", "results", "data"}

\* Objects of up to two members.
ParsedObjects ==
    {ObjectOf(<<>>)}
        \cup {ObjectOf(<< <<k, v>> >>) : k \in MemberKeys, v \in ParsedArrays \cup {StringValue}}
        \cup {ObjectOf(<< <<kl[1], v>>, <<kl[2], w>> >>) :
                 kl \in {x \in MemberKeys \X MemberKeys : x[1] /= x[2]},
                 v \in ParsedArrays \cup {StringValue}, w \in ParsedArrays}

ParsedValues == {Unparseable, StringValue} \cup ParsedArrays \cup ParsedObjects

GenerateFrom ==
    /\ input = <<>>
    /\ \E body \in ParsedValues : Apply("generateMCQs", body, generateRecords(body))

SolveFrom ==
    /\ input = <<>>
    /\ \E body \in ParsedValues : Apply("solveMCQs", body, solveRecords(body))

NextRecords == GenerateFrom \/ SolveFrom

SpecRecords == Init /\ [][NextRecords]_vars

-----------------------------------------------------------------------------
(* Properties of generateWithFallback *)

Last(s) == s[Len(s)]

CallsOn(log, m) == {i \in 1..Len(log) : log[i].model = m}

\* The failure classes as the specification words them: a message naming
\* 429, 503 or "overloaded", or a response of status 429.
SaidTransient(e) ==
    \/ e.message.tokens \cap {"429", "503", "overloaded"} /= {}
    \/ (e.response /\ e.status = 429)

\* C1: the candidates are called in the order of MODELS, starting with the
\* first and skipping none; a call on a later model happens only after
\* every call on an earlier model has failed, and no earlier model is
\* called after a later one.
C1_FallbackOrder ==
    \A r \in Procs :
        LET log == calls[r] IN
        /\ log /= <<>> => log[1].model = 1
        /\ \A j \in 1..Len(log) :
              /\ log[j].model \in 1..Len(MODELS)
              /\ log[j].model > 1 => \E i \in 1..(j - 1) : log[i].model = log[j].model - 1
              /\ \A i \in 1..Len(log) :
                    log[i].model < log[j].model => i < j /\ log[i].outcome = "failed"

C1_Witness ==
    /\ Len(calls[1]) = 4
    /\ calls[1][1].model = 1 /\ calls[1][3].model = 2 /\ calls[1][4].model = 3

C3_AtMostThreeCalls ==
    \A r \in Procs : \A m \in 1..Len(MODELS) : Cardinality(CallsOn(calls[r], m)) <= 3

C3_Witness ==
    /\ Cardinality(CallsOn(calls[1], 1)) = 3
    /\ Cardinality(CallsOn(calls[1], 2)) = 3
    /\ modelIdx[1] = 3

\* C4: a call that succeeds is the last call of the invocation: the engine
\* has returned that call's result, every call before it failed and no
\* later candidate was called; after two transient failures and a success
\* on the first candidate the log holds exactly its three calls.
C4_SuccessEndsInvocation ==
    \A r \in Procs :
        LET log == calls[r] IN
        /\ \A i \in 1..Len(log) :
              log[i].outcome = "ok" =>
                  /\ i = Len(log)
                  /\ pc[r] = "eng_returned"
                  /\ result[r].from = <<log[i].model, log[i].attempt>>
                  /\ \A k \in 1..(i - 1) : log[k].outcome = "failed"
        /\ pc[r] = "eng_returned" =>
              /\ log /= <<>> /\ Last(log).outcome = "ok"
              /\ result[r].body /= "none"
              /\ (Last(log).model = 1 /\ Last(log).attempt = 3) => Len(log) = 3

C4_Witness ==
    /\ pc[1] = "eng_returned"
    /\ Len(calls[1]) = 3
    /\ calls[1][3] = [model |-> 1, attempt |-> 3, outcome |-> "ok"]
    /\ result[1].from = <<1, 3>>

\* C5: the invocation fails exactly when every candidate has ended in
\* failure; the error then carries the message of the last failure, which
\* is the failure of the last call on the last candidate.
C5_FailsOnlyWhenAllFailed ==
    \A r \in Procs :
        LET log == calls[r]
            allEnded ==
                /\ \A m \in 1..Len(MODELS) : CallsOn(log, m) /= {}
                /\ \A i \in 1..Len(log) : log[i].outcome = "failed"
                /\ pc[r] /= "sleeping"
        IN  /\ pc[r] = "eng_threw" <=> allEnded
            /\ pc[r] = "eng_threw" =>
                  /\ Last(log).model = Len(MODELS)
                  /\ error[r].kind = "error"
                  /\ thrown[r] = << "All models failed. Last error: ", error[r].message >>

\* All candidates failed, the last with another message than the first.
C5_Witness ==
    /\ pc[1] = "eng_threw"
    /\ Len(calls[1]) = Len(MODELS) + 2
    /\ Last(calls[1]).attempt = 3
    /\ thrown[1][2] = [tokens |-> {"503"}, hint |-> <<>>]

\* The decimal numbers the hints and headers of ProviderErrors spell, as
\* num/den; den = 0 marks text that is no number.
Spelled(text) ==
    CASE text = <<"1", "2">> -> <<12, 1>>
      [] text = <<"3">> -> <<3, 1>>
      [] text = <<"7">> -> <<7, 1>>
      [] text = <<"1", ".", "5">> -> <<15, 10>>
      [] text = <<"1", ".", "0", "0", "0", "5">> -> <<10005, 10000>>
      [] OTHER -> <<0, 0>>

Hinted(e) == e.message.hint /= <<>>

Headed(e) == e.response /\ e.header /= <<>>

-----------------------------------------------------------------------------
(* Properties of the result cache and of the batches *)

\* The fields of a request the specification keys the cache by.
Fields(q) ==
    <<q.studyMaterial, q.easyCount, q.mediumCount, q.hardCount, q.includeExplanation>>

\* The arguments of the generateMCQs call request r makes for its batch.
CallInputs(r) ==
    LET b == batches[r][bi[r]]
    IN  <<req[r].studyMaterial, b.easyCount, b.mediumCount, b.hardCount,
          req[r].includeExplanation>>

IsText(r) == pc[r] /= "idle" /\ req[r].op = "generate" /\ req[r].file = "none"

Place(ev) == CHOOSE i \in 1..Len(events) : events[i] = ev

\* Request e had finished when request r was received.
DoneBefore(e, r) ==
    /\ \E i \in 1..Len(events) : events[i] = <<"done", e>>
    /\ \E i \in 1..Len(events) : events[i] = <<"received", r>>
    /\ Place(<<"done", e>>) < Place(<<"received", r>>)

\* Request r differs in some field from every other request received.
Unrepeated(r) ==
    \A e \in Procs \ {r} :
        (pc[e] /= "idle" /\ req[e].op = "generate") => Fields(req[e]) /= Fields(req[r])

\* The records of the chunks written so far, in order.
RECURSIVE Delivered(_)
Delivered(chunks) ==
    IF chunks = <<>> THEN <<>>
    ELSE Delivered(SubSeq(chunks, 1, Len(chunks) - 1))
             \o (IF Last(chunks).completed THEN <<>> ELSE Last(chunks).mcqs)

\* C7: a generateMCQs call without attachment whose five inputs equal those
\* of a stored entry returns the stored records, invokes nothing and leaves
\* the cache alone; a call whose inputs differ from those of every stored
\* entry goes on to the fallback engine; the key of the call equals the key
\* of a stored entry exactly when their inputs are equal.
C7_HitOnEqualInputsOnly ==
    [][\A r \in Procs :
          (pc[r] \in {"received", "delay"} /\ pc'[r] /= pc[r] /\ req[r].file = "none") =>
              LET same == {i \in 1..Len(cache) : cache[i].inputs = CallInputs(r)}
              IN  /\ \A i \in 1..Len(cache) : i \in same <=> cache[i].key = cacheKey'[r]
                  /\ cache' = cache
                  /\ IF same /= {}
                     THEN /\ pc'[r] = "gen_returned"
                          /\ \A i \in same : genOut'[r] = cache[i].value
                          /\ invocations'[r] = invocations[r]
                          /\ calls'[r] = <<>>
                     ELSE pc'[r] = "eng_call"]_vars

\* A call is served the records another request stored, while the cache
\* also holds an entry for other inputs.
C7_Witness ==
    \E r \in Procs :
        /\ pc[r] = "gen_returned"
        /\ bi[r] \in hits[r]
        /\ Len(cache) = 2
        /\ \E i \in 1..2 : cache[i].inputs = CallInputs(r) /\ cache[i].value = genOut[r]
        /\ genOut[r][1][1] /= r

\* C8: a text request that differs from every other request in one of its
\* fields has none of its batches served from the cache; a text request
\* equal to one that had finished before it was received, with the results
\* of all its batches in the cache, causes no provider call.
C8_RepeatHitsChangeMisses ==
    \A r \in Procs :
        IsText(r) =>
            /\ Unrepeated(r) => hits[r] = {}
            /\ (\E e \in Procs \ {r} :
                    /\ IsText(e) /\ DoneBefore(e, r) /\ Fields(req[e]) = Fields(req[r])
                    /\ \A b \in 1..Len(batches[e]) : Has(cache, CacheKey(req[e], batches[e][b])))
                   => invocations[r] = 0

\* C9: every cache entry is keyed by the fields of a received request, and
\* once that request has finished its value is all the request delivered.
C9_EntriesAreWholeRequests ==
    \A i \in 1..Len(cache) :
        \E r \in Procs :
            /\ IsText(r)
            /\ cache[i].inputs = Fields(req[r])
            /\ pc[r] = "done" => cache[i].value = Delivered(stream[r])

\* C10: a text request has invoked generateWithFallback once for each batch
\* it has finished processing, its batches of equal tier counts included
\* (stated for the requests that repeat no other request).
C10_OneInvocationPerBatch ==
    \A r \in Procs :
        (IsText(r) /\ Unrepeated(r) /\ pc[r] \in {"delay", "done"}) =>
            invocations[r] = IF pc[r] = "done" THEN Len(batches[r]) ELSE bi[r] - 1

\* Request r was given the records of its batch b by the provider.
Answered(r, b) ==
    \E i \in 1..Len(stream[r]) :
        /\ ~stream[r][i].completed
        /\ Len(stream[r][i].mcqs) > 0
        /\ Origin(stream[r][i].mcqs[1]) = <<r, b, 1>>

\* Process r takes the step.
Steps(r) == pc'[r] /= pc[r] \/ calls'[r] /= calls[r]

\* generateMCQs returns to request r the array it parsed.
Returns(r) == pc[r] = "eng_returned" /\ pc'[r] = "gen_returned"

\* C11: when the cache is full and a result is stored under a key that is
\* not in it, the entry inserted earliest is removed and no other, the other
\* entries keep their order and the new entry comes last.
C11_EvictsOldestOnly ==
    [][\A r \in Procs :
          ( /\ Returns(r)
            /\ cacheKey[r] /= Null
            /\ Len(genOut'[r]) > 0
            /\ Len(cache) = CACHE_LIMIT
            /\ ~Has(cache, cacheKey[r]) ) =>
              /\ Len(cache') = CACHE_LIMIT
              /\ \A i \in 1..(CACHE_LIMIT - 1) : cache'[i] = cache[i + 1]
              /\ ~Has(cache', cache[1].key)
              /\ cache'[CACHE_LIMIT].key = cacheKey[r]
              /\ cache'[CACHE_LIMIT].value = genOut'[r]]_vars

\* The cache is full and the result of an answered batch is no longer in it.
C11_Witness ==
    /\ Len(cache) = CACHE_LIMIT
    /\ \E r \in Procs :
          /\ IsText(r)
          /\ \E b \in 1..Len(batches[r]) :
                Answered(r, b) /\ ~Has(cache, CacheKey(req[r], batches[r][b]))

\* C12: the result cache never holds more than CACHE_LIMIT entries, whatever
\* the interleaving of generation and solving requests.
C12_CacheBounded == Len(cache) <= CACHE_LIMIT

\* The cache is full while a solving request waits to retry a call.
C12_Witness ==
    /\ Len(cache) = CACHE_LIMIT
    /\ \E r \in Procs : IsText(r) /\ pc[r] = "done"
    /\ \E r \in Procs : pc[r] = "sleeping" /\ req[r].op = "solve"

\* C13: every value in the cache is a non-empty array that a generateMCQs
\* call returned in the step that stored it; a call that throws or returns
\* no record leaves the cache as it was.
C13_StoresOnlyReturnedRecords ==
    [][/\ \A i \in 1..Len(cache') : Len(cache'[i].value) > 0
       /\ cache' /= cache =>
              \E r \in Procs :
                  /\ Returns(r)
                  /\ Len(genOut'[r]) > 0
                  /\ Has(cache', cacheKey[r])
                  /\ Get(cache', cacheKey[r]) = genOut'[r]
       /\ \A r \in Procs :
              ( \/ pc'[r] /= pc[r] /\ pc'[r] \in {"gen_threw", "solve_threw"}
                \/ Returns(r) /\ genOut'[r] = <<>> ) => cache' = cache]_vars

\* A text request had one batch fail and another answered with an empty
\* array, and nothing is stored under the key of the latter.
C13_Witness ==
    \E r \in Procs :
        /\ IsText(r)
        /\ failed[r] /= {}
        /\ pc[r] = "gen_returned"
        /\ genOut[r] = <<>>
        /\ bi[r] \notin hits[r]
        /\ ~Has(cache, cacheKey[r])

\* C14: a cache hit leaves the entries and their order as they were, and an
\* entry that leaves the cache is always the one inserted earliest, read or
\* not.
C14_HitKeepsOrder ==
    [][/\ \A r \in Procs :
              (pc[r] \in {"received", "delay"} /\ pc'[r] = "gen_returned") => cache' = cache
       /\ \A i \in 1..Len(cache) : ~Has(cache', cache[i].key) => i = 1]_vars

\* An entry that served a hit has been evicted since.
C14_Witness ==
    \E r \in Procs :
        /\ IsText(r)
        /\ \E b \in hits[r] : ~Has(cache, CacheKey(req[r], batches[r][b]))

\* The request of r is one the cache is not used for.
Uncached(r) == req'[r].op = "solve" \/ req'[r].file /= "none"

\* C15: no step of a solving request or of a generation request with an
\* attachment reads or changes the cache, and no entry of the cache was
\* stored by such a request.
C15_SolveAndFilesBypassCache ==
    [][/\ \A r \in Procs :
              (Steps(r) /\ Uncached(r)) =>
                  /\ cache' = cache
                  /\ hits'[r] = {}
                  /\ cacheKey'[r] = Null
       /\ \A i \in 1..Len(cache') :
              LET owner == cache'[i].value[1][1]
              IN  req'[owner].op = "generate" /\ req'[owner].file = "none"]_vars

\* A request with an attachment went to the provider although the cache
\* held an entry for its material, counts and flag.
C15_Witness ==
    \E r \in Procs :
        /\ pc[r] = "done"
        /\ req[r].op = "generate"
        /\ req[r].file = "pdf"
        /\ invocations[r] = 1
        /\ Has(cache, CacheKey_IgnoreFile(req[r], batches[r][1]))

-----------------------------------------------------------------------------
(* Properties of the batch scheduler and of the generation stream *)

IsGeneration(r) == pc[r] /= "idle" /\ req[r].op = "generate"

BatchSize(b) == b.easyCount + b.mediumCount + b.hardCount

RECURSIVE TierSums(_)
TierSums(bs) ==
    IF bs = <<>> THEN <<0, 0, 0>>
    ELSE LET rest == TierSums(Tail(bs))
         IN  << bs[1].easyCount + rest[1], bs[1].mediumCount + rest[2],
                bs[1].hardCount + rest[3] >>

\* C16: the batches built for validated tier counts hold 1 or 2 items each,
\* add up to the requested counts tier by tier, and are filled in priority
\* order: no easy item follows a batch with a medium item, no easy or medium
\* item follows a batch with a hard item; (3,1,0) gives {2,0,0}, {1,1,0}.
C16_BatchesFillInPriorityOrder ==
    \A r \in Procs :
        IsGeneration(r) =>
            LET bs == batches[r]
                q == req[r]
            IN  /\ \A i \in 1..Len(bs) : BatchSize(bs[i]) >= 1 /\ BatchSize(bs[i]) <= 2
                /\ TierSums(bs) = <<q.easyCount, q.mediumCount, q.hardCount>>
                /\ \A i, j \in 1..Len(bs) :
                       i < j =>
                           /\ bs[i].mediumCount > 0 => bs[j].easyCount = 0
                           /\ bs[i].hardCount > 0 =>
                                  bs[j].easyCount = 0 /\ bs[j].mediumCount = 0
                /\ <<q.easyCount, q.mediumCount, q.hardCount>> = <<3, 1, 0>> =>
                       bs = << [easyCount |-> 2, mediumCount |-> 0, hardCount |-> 0],
                               [easyCount |-> 1, mediumCount |-> 1, hardCount |-> 0] >>

\* Batches were built for a request of all three tiers, one of them mixing
\* easy and medium and a later one medium and hard.
C16_Witness ==
    \E i, j \in 1..Len(batches[1]) :
        /\ i < j
        /\ batches[1][i].easyCount = 1 /\ batches[1][i].mediumCount = 1
        /\ batches[1][j].mediumCount = 1 /\ batches[1][j].hardCount = 1

Pending(r) == {i \in 1..Len(calls[r]) : calls[r][i].outcome = "pending"}

\* C17: the batches of a request are generated one at a time in list order:
\* the generation of a batch starts from the spacing delay, except for the
\* first batch, which starts with no delay; the loop moves to the next batch
\* only when the current one has returned or thrown; a provider call is
\* issued only while a batch is being generated, and at most one call of a
\* request is pending.
C17_BatchesOneAtATime ==
    [][\A r \in Procs :
          (pc'[r] /= "idle" /\ req'[r].op = "generate") =>
              /\ bi'[r] /= bi[r] =>
                     \/ pc[r] = "idle" /\ bi'[r] = 1
                     \/ /\ pc[r] \in {"gen_returned", "gen_threw"}
                        /\ pc'[r] = "delay"
                        /\ bi'[r] = bi[r] + 1
              /\ (pc[r] \in {"received", "delay"} /\ pc'[r] /= pc[r]) =>
                     (pc[r] = "received" <=> bi[r] = 1)
              /\ (pc'[r] = "delay" /\ pc[r] /= "delay") =>
                     pc[r] \in {"gen_returned", "gen_threw"}
              /\ Len(calls'[r]) > Len(calls[r]) =>
                     pc[r] \in {"eng_call", "awaiting", "sleeping"}
              /\ Cardinality(Pending(r)) <= 1]_vars

\* The call for the second batch is pending after the first batch failed.
C17_Witness ==
    \E r \in Procs :
        /\ IsGeneration(r)
        /\ bi[r] = 2
        /\ 1 \in failed[r]
        /\ pc[r] = "awaiting"
        /\ Cardinality(Pending(r)) = 1

IsTerminal(chunk) == DOMAIN chunk = {"completed"} /\ chunk.completed

NonTerminal(r) == {i \in 1..Len(stream[r]) : ~IsTerminal(stream[r][i])}

\* The batches of r that have been attempted and left.
Finished(r) == IF pc[r] = "done" THEN 1..Len(batches[r]) ELSE 1..(bi[r] - 1)

\* The k-th batch of r that did not fail.
Succeeded(r, k) ==
    CHOOSE b \in Finished(r) \ failed[r] :
        Cardinality({c \in Finished(r) \ failed[r] : c < b}) = k - 1

StreamShape(r) ==
    /\ NonTerminal(r) = 1..Cardinality(Finished(r) \ failed[r])
    /\ \A k \in NonTerminal(r) :
           LET b == Succeeded(r, k)
               chunk == stream[r][k]
           IN  (b \notin hits[r] /\ Len(chunk.mcqs) > 0) => Origin(chunk.mcqs[1]) = <<r, b, 1>>
    /\ pc[r] = "done" <=> Len(stream[r]) = Cardinality(NonTerminal(r)) + 1
    /\ pc[r] /= "done" => Len(stream[r]) = Cardinality(NonTerminal(r))
    /\ ( /\ pc[r] = "done"
         /\ failed[r] = {}
         /\ <<req[r].easyCount, req[r].mediumCount, req[r].hardCount>> = <<3, 1, 0>> )
           => Len(stream[r]) = 3 /\ NonTerminal(r) = {1, 2}

\* C18: the stream of a generation request holds one non-terminal chunk for
\* each batch that did not fail, in batch order, then the completion chunk
\* once the last batch has been attempted; nothing is written after it, and
\* it is eventually written whatever the outcomes of the batches.
C18_StreamEndsWithOneMarker ==
    /\ [](\A r \in Procs : IsGeneration(r) => StreamShape(r))
    /\ [][\A r \in Procs : pc[r] = "done" => stream'[r] = stream[r]]_vars
    /\ \A r \in Procs :
           (pc[r] = "received") ~>
               (pc[r] = "done" /\ IsTerminal(stream[r][Len(stream[r])]))

\* A request for (3,1,0) has ended with two chunks and the completion chunk.
C18_Witness ==
    /\ pc[1] = "done"
    /\ <<req[1].easyCount, req[1].mediumCount, req[1].hardCount>> = <<3, 1, 0>>
    /\ failed[1] = {}
    /\ Len(stream[1]) = 3
    /\ IsTerminal(stream[1][3])

\* C19: a batch whose generation threw writes no chunk and does not end the
\* request: the loop goes on to the next batch, or writes the completion
\* chunk after the last; the array of every batch that returns is written.
C19_FailedBatchIsSkipped ==
    [][\A r \in Procs :
          /\ (pc[r] = "gen_threw" /\ pc'[r] /= pc[r]) =>
                 IF bi[r] < Len(batches[r])
                 THEN /\ stream'[r] = stream[r]
                      /\ pc'[r] = "delay"
                      /\ bi'[r] = bi[r] + 1
                 ELSE /\ stream'[r] = Append(stream[r], [completed |-> TRUE])
                      /\ pc'[r] = "done"
          /\ (pc[r] = "gen_returned" /\ pc'[r] /= pc[r]) =>
                 /\ Len(stream'[r]) > Len(stream[r])
                 /\ stream'[r][Len(stream[r]) + 1].mcqs = genOut[r]
          /\ (pc'[r] = "done" /\ req'[r].op = "generate") => bi'[r] = Len(batches'[r])]_vars

\* A request has ended whose first batch failed and whose second batch was
\* answered and delivered.
C19_Witness ==
    \E r \in Procs :
        /\ IsGeneration(r)
        /\ pc[r] = "done"
        /\ 1 \in failed[r]
        /\ Answered(r, 2)
        /\ Len(stream[r]) = 2

RECURSIVE RecordsUpTo(_, _)
RecordsUpTo(chunks, i) ==
    IF i = 0 THEN 0 ELSE RecordsUpTo(chunks, i - 1) + Len(chunks[i].mcqs)

\* C20: every non-terminal chunk of a generation stream has completed =
\* false, total = the sum of the requested tier counts, and current = the
\* number of records of the chunks written up to and including it; current
\* never decreases along the stream.
C20_RunningTotals ==
    \A r \in Procs :
        IsGeneration(r) =>
            /\ \A i \in NonTerminal(r) :
                   /\ stream[r][i].completed = FALSE
                   /\ stream[r][i].total
                          = req[r].easyCount + req[r].mediumCount + req[r].hardCount
                   /\ stream[r][i].current = RecordsUpTo(stream[r], i)
            /\ \A i, j \in NonTerminal(r) :
                   i < j => stream[r][i].current <= stream[r][j].current

\* Two chunks were written, of one and of two records, for a request of 4.
C20_Witness ==
    \E r \in Procs :
        /\ IsGeneration(r)
        /\ Len(stream[r]) >= 2
        /\ NonTerminal(r) = {1, 2}
        /\ stream[r][1].current = 1
        /\ stream[r][2].current = 3
        /\ stream[r][2].total = 4

-----------------------------------------------------------------------------
(* Properties of the solving route *)

IsSolving(r) == pc[r] /= "idle" /\ req[r].op = "solve"

\* C21: a solving request that succeeds has made exactly one invocation of
\* the fallback engine and writes, in one step, one content chunk whose total
\* and current both equal the number of its records, at least 1, followed
\* by the one completion chunk; nothing is written before or after.
C21_SolveWritesOneChunkAndMarker ==
    [][\A r \in Procs :
          /\ (req[r].op = "solve" /\ pc[r] = "solve_returned" /\ pc'[r] /= pc[r]) =>
                 /\ pc'[r] = "done"
                 /\ invocations'[r] = 1
                 /\ stream[r] = <<>>
                 /\ Len(stream'[r]) = 2
                 /\ ~stream'[r][1].completed
                 /\ Len(stream'[r][1].mcqs) >= 1
                 /\ stream'[r][1].total = Len(stream'[r][1].mcqs)
                 /\ stream'[r][1].current = Len(stream'[r][1].mcqs)
                 /\ stream'[r][2] = [completed |-> TRUE]
          /\ (IsSolving(r) /\ pc[r] = "done") => stream'[r] = stream[r]]_vars

\* A solving request answered with two records after one backoff wait.
C21_Witness ==
    \E r \in Procs :
        /\ IsSolving(r)
        /\ pc[r] = "done"
        /\ sleeps > 0
        /\ Len(stream[r]) = 2
        /\ stream[r][1].total = 2

\* C22: a solving request that ends without solveMCQs having returned (the
\* validation, the extraction, every model, the parse or the filter failed)
\* is answered with the one 500 error response, which is no chunk, and
\* nothing is written to it before.
C22_SolveFailureIsOneErrorResponse ==
    /\ [][\A r \in Procs :
             (req'[r].op = "solve" /\ pc'[r] = "done" /\ pc[r] \notin {"done", "solve_returned"}) =>
                 /\ Len(stream'[r]) = 1
                 /\ DOMAIN stream'[r][1] = {"status", "success", "error"}
                 /\ stream'[r][1].status = 500
                 /\ ~stream'[r][1].success]_vars
    /\ [](\A r \in Procs : (IsSolving(r) /\ pc[r] /= "done") => stream[r] = <<>>)

\* Two solving requests have failed, one in validation and one because the
\* answer held no object.
C22_Witness ==
    \E r, e \in Procs :
        /\ IsSolving(r) /\ pc[r] = "done"
        /\ IsSolving(e) /\ pc[e] = "done"
        /\ stream[r] = ErrorResponse(<<"MCQ Text: ", "Text input cannot be empty">>)
        /\ stream[e] = ErrorResponse(<<"Failed to solve MCQs: ",
                                       "No valid MCQs could be extracted from the AI response">>)

-----------------------------------------------------------------------------
(* Properties of the streamed records *)

Labels == {"A", "B", "C", "D"}

\* The canonical record: question, the option slots A-D, a label, explanation.
IsCanonical(x) ==
    /\ x.t = "object"
    /\ DOMAIN x.fields = {"question", "options", "correctAnswer", "explanation"}
    /\ x.fields.options.t = "object"
    /\ DOMAIN x.fields.options.fields = Labels
    /\ x.fields.correctAnswer.t = "string"
    /\ x.fields.correctAnswer.chars \in {<<l>> : l \in Labels}

\* C25: every record in a content chunk of a generation stream is a
\* canonical record (question, options A-D, label in A-D, explanation).
C25_StreamedRecordsAreCanonical ==
    \A r \in Procs :
        IsGeneration(r) =>
            \A i \in 1..Len(stream[r]) :
                ~stream[r][i].completed =>
                    \A j \in 1..Len(stream[r][i].mcqs) : IsCanonical(stream[r][i].mcqs[j][4])

\* C30: when the extraction of a presentation has failed, the request ends
\* there and its stream does not end with the completion chunk.
C30_ExtractionFailureEndsRequest ==
    [][\A r \in Procs :
          ( /\ pc[r] \in {"gen_threw", "solve_threw"}
            /\ Last(thrown[r]) = "Failed to extract text from PPT file"
            /\ pc'[r] /= pc[r] ) =>
              /\ pc'[r] = "done"
              /\ Last(stream'[r]) /= [completed |-> TRUE]]_vars

-----------------------------------------------------------------------------
(* Properties of the normalizers *)

Normalized == input /= <<>> /\ input.fn = "normalizeMCQ" /\ output /= JNull

\* C23: the label normalizeMCQ returns is one of A, B, C, D: the upper-cased
\* first character of the trimmed answer text when that is one of a-d, A-D,
\* and A otherwise.
C23_LabelIsOneOfFour ==
    Normalized =>
        LET answer == AnswerText(input.arg)
            label == output.fields.correctAnswer.chars
        IN  /\ label \in {<<"A">>, <<"B">>, <<"C">>, <<"D">>}
            /\ label = IF answer /= <<>>
                          /\ answer[1] \in {"A", "B", "C", "D", "a", "b", "c", "d"}
                       THEN <<ToUpperCase(answer[1])>>
                       ELSE <<"A">>

\* C24: the options of a record normalizeMCQ returns are an object with
\* exactly the slots A, B, C, D, each holding a value, the empty string at
\* least.
C24_FourSlotsPresent ==
    Normalized =>
        LET options == output.fields.options
        IN  /\ options.t = "object"
            /\ DOMAIN options.fields = {"A", "B", "C", "D"}
            /\ \A k \in DOMAIN options.fields :
                   options.fields[k].t \notin {"undefined", "null"}

\* Options keyed b and D only: slot B is filled, the others are empty.
C24_Witness ==
    /\ Normalized
    /\ Prop(input.arg, "choices") /= Undefined
    /\ Prop(input.arg, "choices").t = "object"
    /\ DOMAIN Prop(input.arg, "choices").fields = {"b", "D"}
    /\ output.fields.options.fields["B"] = JStr(<<"option ", "b">>)
    /\ output.fields.options.fields["D"] = JStr(<<>>)

\* C26: normalizeOptions returns the same record for four values given as an
\* array, as an object keyed A-D and as an object keyed a-d: the values in
\* the slots A-D, the empty string for a value that is null or empty.
C26_ThreeShapesAgree ==
    (input /= <<>> /\ input.fn = "normalizeOptions") =>
        /\ output[1] = output[2]
        /\ output[2] = output[3]
        /\ output[3] = JObj([A |-> Or(input.arg[1], JStr(<<>>)), B |-> Or(input.arg[2], JStr(<<>>)),
                             C |-> Or(input.arg[3], JStr(<<>>)), D |-> Or(input.arg[4], JStr(<<>>))])

\* Four values, the first two empty, were normalized.
C26_Witness ==
    /\ input /= <<>>
    /\ input.fn = "normalizeOptions"
    /\ input.arg = <<JStr(<<>>), JNull, JStr(<<"w">>), JStr(<<"x">>)>>
    /\ output[3].fields["C"] = JStr(<<"w">>)

-----------------------------------------------------------------------------
(* Properties of cleanJSONResponse *)

Sanitized == input /= <<>> /\ input.fn = "cleanJSONResponse"

\* C27: for a text that is valid JSON, the output of cleanJSONResponse
\* parses to the value the text parses to.
C27_ValidJSONKeepsItsValue ==
    (Sanitized /\ JSONparse(input.arg).ok) =>
        /\ JSONparse(output).ok
        /\ JSONparse(output).value = JSONparse(input.arg).value

\* C28: for an array cut anywhere after its first record, the output parses
\* to an array that starts with the records that stood whole before the cut.
C28_TruncatedArrayKeepsWholeRecords ==
    Sanitized =>
        \A records \in WholeArrays :
            \A k \in Cuts(records) :
                input.arg = SubSeq(ArrayText(records), 1, k) =>
                    LET out == JSONparse(output)
                        whole == JSONparse(ArrayText(records)).value.items
                        n == CompleteRecords(records, k)
                    IN  /\ out.ok
                        /\ out.value.t = "array"
                        /\ Len(out.value.items) >= n
                        /\ SubSeq(out.value.items, 1, n) = SubSeq(whole, 1, n)

Contains(s, sub) == \E i \in 1..(Len(s) - Len(sub) + 1) : SubSeq(s, i, i + Len(sub) - 1) = sub

\* C29: for an array with one backslash before a character that makes no
\* escape, the output parses and its string holds the backslash followed by
\* that character.
C29_UnescapedBackslashIsKept ==
    Sanitized =>
        \A pre \in Bodies(1), c \in NonEscapes, post \in Bodies(1) :
            input.arg = Unescaped(pre, c, post) =>
                LET out == JSONparse(output)
                IN  /\ out.ok
                    /\ Contains(out.value.items[1].pairs[1][2].chars, <<"\\", c>>)

\* The characters that make a legal JSON escape after a backslash; u makes
\* one with four hex digits after it.
LegalAfterBackslash == {"\"", "\\", "/", "b", "f", "n", "r", "t"}

LegalEscapeAt(text, i) ==
    /\ i + 1 <= Len(text)
    /\ \/ text[i + 1] \in LegalAfterBackslash
       \/ /\ text[i + 1] = "u"
          /\ i + 5 <= Len(text)
          /\ \A k \in (i + 2)..(i + 5) : text[k] \in HexDigits

\* The text with every backslash doubled that starts no legal escape, read
\* from the left, an escape taken whole.
RECURSIVE StrayDoubled(_, _)
StrayDoubled(text, i) ==
    IF i > Len(text) THEN <<>>
    ELSE IF text[i] /= "\\" THEN <<text[i]>> \o StrayDoubled(text, i + 1)
    ELSE IF LegalEscapeAt(text, i) THEN <<text[i], text[i + 1]>> \o StrayDoubled(text, i + 2)
    ELSE <<"\\", "\\">> \o StrayDoubled(text, i + 1)

\* The characters a string body of valid JSON stands for.
Meaning(body) == JSONparse(OneRecord(body)).value.items[1].pairs[1][2].chars

NoGrave(text) == \A i \in 1..Len(text) : text[i] /= Backtick

\* C33: for an array with one backslash before a character that makes no
\* escape, among legal escapes and without a code fence, the output is the
\* text with that backslash doubled and every legal escape, the escaped
\* backslash included, left as it is; it parses, and its string holds what
\* the legal escapes stand for around the backslash and the character.
C33_OnlyStrayBackslashIsDoubled ==
    Sanitized =>
        \A pre \in Bodies(1), c \in NonEscapes, post \in Bodies(1) :
            (input.arg = Unescaped(pre, c, post) /\ NoGrave(input.arg)) =>
                LET out == JSONparse(output)
                IN  /\ output = StrayDoubled(input.arg, 1)
                    /\ out.ok
                    /\ out.value.items[1].pairs[1][2].chars
                           = Meaning(pre) \o <<"\\", c>> \o Meaning(post)

-----------------------------------------------------------------------------
(* Termination and waits of the fallback engine *)

Ended(r) == pc[r] \in {"eng_returned", "eng_threw"}

\* C35: an invocation of generateWithFallback ends, with a result or with
\* the all-models-failed error, and makes at most 3 calls and 2 waits for
\* each model it has reached, so at most 3 x |MODELS| calls and 2 x |MODELS|
\* waits in all, whatever the provider does.
C35_EngineTerminatesWithinBounds ==
    /\ [](LET reached == Min(modelIdx[1], Len(MODELS))
          IN  /\ Len(calls[1]) <= 3 * reached /\ 3 * reached <= 3 * Len(MODELS)
              /\ sleeps <= 2 * reached /\ 2 * reached <= 2 * Len(MODELS))
    /\ [](Ended(1) => thrown[1] = IF pc[1] = "eng_threw" THEN AllFailedMessage(lastError[1])
                                  ELSE <<>>)
    /\ <>Ended(1)

\* Every model has failed three times, each time in a transient way.
C35_Witness ==
    /\ pc[1] = "eng_threw"
    /\ Len(calls[1]) = 3 * Len(MODELS)
    /\ sleeps = 2 * Len(MODELS)

\* C36: a wait starts only after a transient failure of the first or second
\* attempt on a model and is followed by the next attempt on that model;
\* the first call on a model follows the failure at once and nothing waits
\* before it, whatever hint the error carried; no model has more than 2 waits.
C36_WaitsOnlyBetweenAttempts ==
    /\ [][\A r \in Procs :
             /\ (pc'[r] = "sleeping" /\ pc[r] /= "sleeping") =>
                    /\ pc[r] = "awaiting"
                    /\ SaidTransient(error'[r])
                    /\ attempt[r] < 3
             /\ (pc[r] = "sleeping" /\ pc'[r] /= "sleeping") =>
                    /\ Len(calls'[r]) = Len(calls[r]) + 1
                    /\ Last(calls'[r]).model = Last(calls[r]).model
                    /\ Last(calls'[r]).attempt = Last(calls[r]).attempt + 1
             /\ (Len(calls'[r]) = Len(calls[r]) + 1 /\ Last(calls'[r]).attempt = 1) =>
                    /\ pc[r] \in {"eng_call", "awaiting"}
                    /\ sleeps' = sleeps
             /\ sleeps' /= sleeps => pc'[r] = "sleeping" \/ pc'[r] = pc[r]]_vars
    /\ [](\A r \in Procs : \A m \in 1..Len(MODELS) :
             Cardinality({i \in CallsOn(calls[r], m) : calls[r][i].attempt > 1}) <= 2)

\* A fatal error that carried a retry hint and a retry-after header sent the
\* engine to the second model with no wait.
C36_Witness ==
    /\ Len(calls[1]) = 2
    /\ calls[1][2] = Call(2, 1)
    /\ error[1].message.hint /= <<>>
    /\ error[1].header /= <<>>
    /\ sleeps = 0

-----------------------------------------------------------------------------
(* Option keys of either case *)

LowerCase(l) == CASE l = "A" -> "a" [] l = "B" -> "b" [] l = "C" -> "c" [] l = "D" -> "d"

\* The options normalizeMCQ was given: mcq.options || mcq.Options || mcq.choices
GivenOptions == Or(Prop(input.arg, "options"), Or(Prop(input.arg, "Options"), Prop(input.arg, "choices")))

\* C34: for options given as an object, each slot A-D of the result holds
\* the value under its upper-case key or else the value under its
\* lower-case key or else the empty string, whatever the other keys are.
C34_SlotsAcceptEitherCase ==
    (Normalized /\ GivenOptions.t = "object") =>
        \A l \in Labels :
            output.fields.options.fields[l] =
                Or(Prop(GivenOptions, l), Or(Prop(GivenOptions, LowerCase(l)), JStr(<<>>)))

-----------------------------------------------------------------------------
(* Properties of the record list *)

Listed == input /= <<>> /\ input.fn \in {"generateMCQs", "solveMCQs"}

\* C31: in generateMCQs and in solveMCQs alike, a non-empty array without
\* an object makes the call throw, and an empty array makes it return no
\* record.
C31_EmptyArrayIsNoFailure ==
    (Listed /\ input.arg.kind = "array") =>
        /\ (Len(input.arg.items) > 0 /\ \A i \in 1..Len(input.arg.items) : input.arg.items[i] /= "obj")
               => output.threw
        /\ input.arg.items = <<>> => (~output.threw /\ output.items = <<>>)

WrapperKeys == <<"mcqs", "questions", "answers", "results">>

\* The places of the wrapper keys under which a parsed object holds an array.
Wrapping(object) ==
    {n \in 1..Len(WrapperKeys) :
        \E i \in 1..Len(object.members) :
            object.members[i][1] = WrapperKeys[n] /\ object.members[i][2].kind = "array"}

FirstWrapped(object) ==
    LET n == CHOOSE n \in Wrapping(object) : \A k \in Wrapping(object) : n <= k
        i == CHOOSE i \in 1..Len(object.members) : object.members[i][1] = WrapperKeys[n]
    IN  object.members[i][2]

\* C32: in generateMCQs and in solveMCQs alike, a parsed object that holds
\* an array under mcqs, questions, answers or results is treated as the
\* first such array is, and a parsed object without one makes the call
\* throw.
C32_WrappedArrayIsUsed ==
    (Listed /\ input.arg.kind = "object") =>
        IF Wrapping(input.arg) = {} THEN output.threw
        ELSE output = IF input.fn = "solveMCQs" THEN solveRecords(FirstWrapped(input.arg))
                      ELSE generateRecords(FirstWrapped(input.arg))

-----------------------------------------------------------------------------
(* Eviction *)

Keys(c) == {c[i].key : i \in 1..Len(c)}

\* C37: a step removes a key from resultCache only when it adds a key that
\* was not there to a cache of CACHE_LIMIT entries, so that the cache still
\* holds CACHE_LIMIT entries after it.
C37_EvictsOnlyForNewKeyWhenFull ==
    [][Keys(cache) \ Keys(cache') /= {} =>
           /\ Len(cache) = CACHE_LIMIT
           /\ Keys(cache') \ Keys(cache) /= {}
           /\ Len(cache') = CACHE_LIMIT]_vars

-----------------------------------------------------------------------------
(* Records delivered and records asked for *)

\* C38: in every chunk of a generation stream that is not the last one,
\* current is at most total.
C38_CurrentAtMostTotal ==
    \A r \in Procs :
        IsGeneration(r) =>
            \A i \in 1..Len(stream[r]) :
                ~stream[r][i].completed => stream[r][i].current <= stream[r][i].total

-----------------------------------------------------------------------------
(* The number of batches *)

\* C39: for validated tier counts the batch loop ends and has built
\* ceil(total / 2) batches, total the sum of the tier counts: every batch
\* but the last holds exactly 2 items and the last holds 1 or 2.
C39_BatchCountIsHalfTheTotal ==
    \A r \in Procs :
        IsGeneration(r) =>
            LET bs == batches[r]
                total == req[r].easyCount + req[r].mediumCount + req[r].hardCount
            IN  /\ Len(bs) = (total + 1) \div 2
                /\ \A i \in 1..Len(bs) :
                       /\ BatchSize(bs[i]) >= 1
                       /\ i < Len(bs) => BatchSize(bs[i]) = 2

\* Three batches were built for five items of three tiers, the last batch
\* with one item.
C39_Witness ==
    /\ IsGeneration(1)
    /\ <<req[1].easyCount, req[1].mediumCount, req[1].hardCount>> = <<1, 2, 2>>
    /\ Len(batches[1]) = 3
    /\ BatchSize(batches[1][3]) = 1

====
